---- MODULE Spec2Model ----
(***************************************************************************)
(* A model of the ScentMatch recommendation engine: the two in-memory      *)
(* recommenders (NoteBasedRecommender, SimilarityRecommender), the         *)
(* process-wide pair of instances the API keeps, and the calls on them.    *)
(*                                                                         *)
(* Python floats are rendered in fixed point: a real x is the integer      *)
(* x * Scale, products and quotients round toward zero.  math.log is a     *)
(* table of ln(n) * Scale, math.sqrt an integer square root.  A sum over a *)
(* Python set is order independent here because integer addition is.      *)
(***************************************************************************)
EXTENDS Integers, Sequences, FiniteSets, TLC

VARIABLES
    catalog,      \* the Fragrance list both recommenders were constructed from
    nb,           \* the NoteBasedRecommender instance (its attributes)
    sim,          \* the SimilarityRecommender instance (its attributes)
    pc,           \* "idle" | "returned": position of the caller
    req,          \* the request of the call in progress / just returned
    outcome,      \* what the call returned or raised
    prev,         \* an earlier call kept for comparison with a repeat of it
    note_based_recommender,   \* process-wide reference (recomender.py:34)
    similarity_recommender,   \* process-wide reference (recomender.py:35)
    db,           \* the snapshot the database currently holds
    init_pc,      \* position of initialize_recommenders
    init_rows,    \* the rows initialize_recommenders has loaded
    reader,       \* per request task: its position and the instances it holds
    raw_rows,     \* the rows handed to from_database_rows
    load,         \* from_database_rows: its position and what it built
    probe,        \* a call of _calculate_note_preference_match on its own
    now,          \* the clock, in whole seconds (int(datetime.now().timestamp()))
    redis_connected,  \* whether a command on RedisService.client succeeds
    redis,        \* the keys Redis holds: blacklist:{jti} and login:{identifier}
    token,        \* the access token create_access_token issued
    user,         \* the User row login_user reads and commits
    response,     \* the last call of the security layer and what it returned
    allowed,      \* the seconds at which check_rate_limit reported allowed
    logged_out    \* whether blacklist_token has returned True for the token

vars == <<catalog, nb, sim, pc, req, outcome, prev,
          note_based_recommender, similarity_recommender, db, init_pc,
          init_rows, reader, raw_rows, load, probe, now, redis_connected,
          redis, token, user, response, allowed, logged_out>>

engineVars == <<catalog, nb, sim, pc, req, outcome, prev>>
reloadVars == <<note_based_recommender, similarity_recommender, db, init_pc,
                init_rows, reader>>
unitVars == <<raw_rows, load, probe>>
authVars == <<now, redis_connected, redis, token, user, response, allowed,
              logged_out>>

\* no token issued, no key in Redis, no failed login, no call made
NoToken == [exp |-> -1]
EmptyRedis == [blacklist |-> -1, attempts |-> {}]
NoResponse == [op |-> "none", result |-> "none"]
AuthIdle ==
  /\ now = 0
  /\ redis_connected = TRUE
  /\ redis = EmptyRedis
  /\ token = NoToken
  /\ user = [failed_login_attempts |-> 0]
  /\ response = NoResponse
  /\ allowed = <<>>
  /\ logged_out = FALSE

-----------------------------------------------------------------------------
(* Fixed-point arithmetic *)

Scale == 10000

Min(a, b) == IF a <= b THEN a ELSE b
Max(a, b) == IF a >= b THEN a ELSE b

\* a * b and a / b of two reals
Mul(a, b) == (a * b) \div Scale
Div(a, b) == (a * Scale) \div b

\* p percent as a real: Pct(40) is 0.40
Pct(p) == (p * Scale) \div 100

\* ln(n) * Scale for 1 <= n <= 64, rounded to nearest
LnTable ==
  <<    0,  6931, 10986, 13863, 16094, 17918, 19459, 20794,
    21972, 23026, 23979, 24849, 25649, 26391, 27081, 27726,
    28332, 28904, 29444, 29957, 30445, 30910, 31355, 31781,
    32189, 32581, 32958, 33322, 33673, 34012, 34340, 34657,
    34965, 35264, 35553, 35835, 36109, 36376, 36636, 36889,
    37136, 37377, 37612, 37842, 38067, 38286, 38501, 38712,
    38918, 39120, 39318, 39512, 39703, 39890, 40073, 40254,
    40431, 40604, 40775, 40943, 41109, 41271, 41431, 41589 >>

\* math.log(n), n >= 1; the few larger arguments the rating counts produce
Ln(n) ==
  CASE n \in 1..64 -> LnTable[n]
    [] n = 101  -> 46151
    [] n = 501  -> 62166
    [] n = 1001 -> 69088

RECURSIVE SqrtSearch(_, _, _)
SqrtSearch(v, lo, hi) ==
  IF lo >= hi THEN lo
  ELSE LET mid == (lo + hi + 1) \div 2
       IN IF mid * mid <= v THEN SqrtSearch(v, mid, hi)
                            ELSE SqrtSearch(v, lo, mid - 1)

\* math.sqrt(x) of a real x in [0, 4] that is given to double precision, as
\* the integer x * Scale * Scale: the real sqrt(x), rounded down
Sqrt(xx) == SqrtSearch(xx, 0, 2 * Scale)

\* sum of f[x] over a finite set
RECURSIVE SumOver(_, _)
SumOver(S, f) ==
  IF S = {} THEN 0
  ELSE LET x == CHOOSE y \in S : TRUE
       IN f[x] + SumOver(S \ {x}, f)

Range(s) == { s[i] : i \in DOMAIN s }

-----------------------------------------------------------------------------
(* The data the model runs on *)

MaxRows == 3      \* fragrances in a catalog
MaxTargets == 2   \* target ids in a similarity request
MaxPrefs == 2     \* entries in a preference list
MaxLimit == 3     \* the limit of a request

Ids == <<"f1", "f2", "f3", "f4", "f5", "f6">>
MissingId == "zz"     \* an id no catalog holds

\* str.lower() on the names the model uses
Lower(s) ==
  CASE s = "Vanilla" -> "vanilla"
    [] s = "Cedar"   -> "cedar"
    [] s = "Woody"   -> "woody"
    [] s = "Rose"    -> "rose"
    [] OTHER         -> s

\* Fragrance records less their id (name and brand are display strings no
\* score reads; they are left out).  avg_rating is a real, num_ratings an int.
TemplateSeq ==
  << [top_notes |-> <<"vanilla">>, middle_notes |-> <<"cedar">>,
     base_notes |-> <<>>, accords |-> <<"woody">>,
     avg_rating |-> 4 * Scale, num_ratings |-> 100],
    [top_notes |-> <<"vanilla">>, middle_notes |-> <<"rose">>,
     base_notes |-> <<"vanilla">>, accords |-> <<"woody", "fresh">>,
     avg_rating |-> 5 * Scale, num_ratings |-> 1],
    [top_notes |-> <<>>, middle_notes |-> <<>>,
     base_notes |-> <<>>, accords |-> <<>>,
     avg_rating |-> 0, num_ratings |-> 0],
    [top_notes |-> <<>>, middle_notes |-> <<"cedar">>,
     base_notes |-> <<"rose">>, accords |-> <<"fresh">>,
     avg_rating |-> 2 * Scale, num_ratings |-> 20] >>

Templates == Range(TemplateSeq)

\* base.py Fragrance: the dataclass, notes being top + middle + base
Fragrance(id, t) ==
  [id |-> id,
   notes |-> t.top_notes \o t.middle_notes \o t.base_notes,
   top_notes |-> t.top_notes, middle_notes |-> t.middle_notes,
   base_notes |-> t.base_notes, accords |-> t.accords,
   avg_rating |-> t.avg_rating, num_ratings |-> t.num_ratings]

\* every Fragrance list of at most MaxRows records with distinct ids
Catalogs ==
  UNION { { [i \in 1..n |-> Fragrance(Ids[i], c[i])] :
              c \in [1..n -> Templates] } : n \in 0..MaxRows }

-----------------------------------------------------------------------------
(* Python containers *)

\* a dict is a sequence of <<key, value>> in insertion order
DictKeys(d) == { d[i][1] : i \in DOMAIN d }
DictGet(d, k) == (CHOOSE i \in DOMAIN d : d[i][1] = k)
DictValue(d, k) == d[DictGet(d, k)][2]
DictValues(d) == [i \in DOMAIN d |-> d[i][2]]

\* d[k] = v: a new key goes last, a known key keeps its place
DictSet(d, k, v) ==
  IF k \in DictKeys(d)
    THEN [d EXCEPT ![DictGet(d, k)] = <<k, v>>]
    ELSE Append(d, <<k, v>>)

\* {f.id: f for f in fragrances}
RECURSIVE DictById(_, _)
DictById(fragrances, d) ==
  IF fragrances = <<>> THEN d
  ELSE DictById(Tail(fragrances),
                DictSet(d, Head(fragrances).id, Head(fragrances)))

\* a Counter is a function from the keys counted so far
CounterGet(c, k) == IF k \in DOMAIN c THEN c[k] ELSE 0
CounterAdd(c, k, w) ==
  [x \in DOMAIN c \cup {k} |-> IF x = k THEN CounterGet(c, k) + w ELSE c[x]]

\* for x in names: c[x.lower()] += w
RECURSIVE CounterAddAll(_, _, _)
CounterAddAll(c, names, w) ==
  IF names = <<>> THEN c
  ELSE CounterAddAll(CounterAdd(c, Lower(Head(names)), w), Tail(names), w)

EmptyCounter == [x \in {} |-> 0]

\* {x.lower() for x in names}
LowerSet(names) == { Lower(names[i]) : i \in DOMAIN names }

\* min(f.num_ratings for f in fragrances)
MaxNumRatings_min(fragrances) ==
  CHOOSE m \in { fragrances[i].num_ratings : i \in DOMAIN fragrances } :
    \A i \in DOMAIN fragrances : fragrances[i].num_ratings >= m

\* max(f.num_ratings for f in fragrances)
MaxNumRatings(fragrances) ==
  CHOOSE m \in { fragrances[i].num_ratings : i \in DOMAIN fragrances } :
    \A i \in DOMAIN fragrances : fragrances[i].num_ratings <= m

\* list.sort(key=score, reverse=True): stable, equal scores keep their order.
\* Insert x after every element whose score is >= its own.
RECURSIVE InsertDesc(_, _)
InsertDesc(sorted, x) ==
  IF sorted = <<>> THEN <<x>>
  ELSE IF Head(sorted).score >= x.score
         THEN <<Head(sorted)>> \o InsertDesc(Tail(sorted), x)
         ELSE <<x>> \o sorted

RECURSIVE SortDesc(_, _)
SortDesc(candidates, sorted) ==
  IF candidates = <<>> THEN sorted
  ELSE SortDesc(Tail(candidates), InsertDesc(sorted, Head(candidates)))

\* candidates[:limit] for limit >= 0
Slice(candidates, limit) == SubSeq(candidates, 1, Min(limit, Len(candidates)))

-----------------------------------------------------------------------------
(* NoteBasedRecommender *)

\* _calculate_note_frequencies / _calculate_accord_frequencies: one count
\* for every occurrence of the name in every fragrance's list
RECURSIVE Nb_calculate_note_frequencies(_, _)
Nb_calculate_note_frequencies(fragrances, frequencies) ==
  IF fragrances = <<>> THEN frequencies
  ELSE Nb_calculate_note_frequencies(Tail(fragrances),
         CounterAddAll(frequencies, Head(fragrances)[2].notes, 1))

RECURSIVE Nb_calculate_accord_frequencies(_, _)
Nb_calculate_accord_frequencies(fragrances, frequencies) ==
  IF fragrances = <<>> THEN frequencies
  ELSE Nb_calculate_accord_frequencies(Tail(fragrances),
         CounterAddAll(frequencies, Head(fragrances)[2].accords, 1))

\* NoteBasedRecommender.__init__ without the default of max_ratings for an
\* empty list
Nb_init_max_ratings_0(fragrances) ==
  LET d == DictById(fragrances, <<>>)
  IN [fragrances |-> d,
      note_frequencies |-> Nb_calculate_note_frequencies(d, EmptyCounter),
      accord_frequencies |-> Nb_calculate_accord_frequencies(d, EmptyCounter),
      max_ratings |-> IF fragrances # <<>> THEN MaxNumRatings(fragrances)
                                           ELSE 0,
      NOTE_PREFERENCE_WEIGHT |-> Pct(45),
      ACCORD_PREFERENCE_WEIGHT |-> Pct(30),
      QUALITY_WEIGHT |-> Pct(20),
      POPULARITY_WEIGHT |-> Pct(5)]

\* NoteBasedRecommender.__init__ with POPULARITY_WEIGHT 0.10 for 0.05
Nb_init_popularity_10(fragrances) ==
  LET d == DictById(fragrances, <<>>)
  IN [fragrances |-> d,
      note_frequencies |-> Nb_calculate_note_frequencies(d, EmptyCounter),
      accord_frequencies |-> Nb_calculate_accord_frequencies(d, EmptyCounter),
      max_ratings |-> IF fragrances # <<>> THEN MaxNumRatings(fragrances)
                                           ELSE 1,
      NOTE_PREFERENCE_WEIGHT |-> Pct(45),
      ACCORD_PREFERENCE_WEIGHT |-> Pct(30),
      QUALITY_WEIGHT |-> Pct(20),
      POPULARITY_WEIGHT |-> Pct(10)]

\* NoteBasedRecommender.__init__
Nb_init(fragrances) ==
  LET d == DictById(fragrances, <<>>)
  IN [fragrances |-> d,
      note_frequencies |-> Nb_calculate_note_frequencies(d, EmptyCounter),
      accord_frequencies |-> Nb_calculate_accord_frequencies(d, EmptyCounter),
      max_ratings |-> IF fragrances # <<>> THEN MaxNumRatings(fragrances)
                                           ELSE 1,
      NOTE_PREFERENCE_WEIGHT |-> Pct(45),
      ACCORD_PREFERENCE_WEIGHT |-> Pct(30),
      QUALITY_WEIGHT |-> Pct(20),
      POPULARITY_WEIGHT |-> Pct(5)]

\* {pref.name.lower(): pref.importance for pref in prefs}
RECURSIVE PrefDict(_, _)
PrefDict(prefs, d) ==
  IF prefs = <<>> THEN d
  ELSE PrefDict(Tail(prefs),
                DictSet(d, Lower(Head(prefs).name), Head(prefs).importance))

\* Nb_preference_match without the final min(..., 1.0)
Nb_preference_match_unclamped(frequencies, names, prefs, rarity, coverage_weight) ==
  IF prefs = <<>> \/ names = <<>> THEN 0
  ELSE
    LET user_prefs == PrefDict(prefs, <<>>)
        name_set == LowerSet(names)
        keys == DictKeys(user_prefs)
        total_preference_weight ==
          SumOver(keys, [k \in keys |-> DictValue(user_prefs, k)])
        matched == keys \cap name_set
        matched_weight ==
          SumOver(matched,
                  [k \in matched |->
                     DictValue(user_prefs, k)
                     * (Scale + Mul(Div(Scale,
                                        Ln((IF k \in DOMAIN frequencies
                                              THEN frequencies[k] ELSE 1) + 1)),
                                    rarity))])
    IN IF total_preference_weight = 0 THEN 0
       ELSE matched_weight \div total_preference_weight
            + Mul((Cardinality(name_set \cap keys) * Scale)
                    \div Len(user_prefs), coverage_weight)

\* rarity_multiplier = 1 + (1 / math.log(frequency + 1)) * 0.5 (0.3 for
\* accords)
Nb_rarity_multiplier(frequency, rarity) ==
  Scale + Mul(Div(Scale, Ln(frequency + 1)), rarity)

\* the shape _calculate_note_preference_match and
\* _calculate_accord_preference_match share: rarity and coverage differ
Nb_preference_match(frequencies, names, prefs, rarity, coverage_weight) ==
  IF prefs = <<>> \/ names = <<>> THEN 0
  ELSE
    LET user_prefs == PrefDict(prefs, <<>>)
        name_set == LowerSet(names)
        keys == DictKeys(user_prefs)
        total_preference_weight ==
          SumOver(keys, [k \in keys |-> DictValue(user_prefs, k)])
        matched == keys \cap name_set
        rarity_multiplier(k) ==
          Nb_rarity_multiplier(IF k \in DOMAIN frequencies
                                 THEN frequencies[k] ELSE 1, rarity)
        matched_weight ==
          SumOver(matched,
                  [k \in matched |->
                     DictValue(user_prefs, k) * rarity_multiplier(k)])
    IN IF total_preference_weight = 0 THEN 0
       ELSE LET preference_match == matched_weight \div total_preference_weight
                coverage == (Cardinality(name_set \cap keys) * Scale)
                              \div Len(user_prefs)
                coverage_bonus == Mul(coverage, coverage_weight)
            IN Min(preference_match + coverage_bonus, Scale)

\* _calculate_note_preference_match without the rarity bonus
Nb_calculate_note_preference_match_no_rarity(self, fragrance_notes, prefs) ==
  Nb_preference_match(self.note_frequencies, fragrance_notes, prefs,
                      0, Pct(20))

Nb_calculate_note_preference_match(self, fragrance_notes, prefs) ==
  Nb_preference_match(self.note_frequencies, fragrance_notes, prefs,
                      Pct(50), Pct(20))

Nb_calculate_accord_preference_match(self, fragrance_accords, prefs) ==
  Nb_preference_match(self.accord_frequencies, fragrance_accords, prefs,
                      Pct(30), Pct(25))

\* _wilson_score: positive_ratings is a real, total_ratings an int
Nb_wilson_score(positive_ratings, total_ratings) ==
  IF total_ratings = 0 THEN 0
  ELSE
    LET p == positive_ratings \div total_ratings
        n == total_ratings
        z == Pct(196)
        zz == Mul(z, z)
        denominator == Scale + zz \div n
        numerator ==
          p + zz \div (2 * n)
            - Mul(z, Sqrt((p * (Scale - p) + (zz * Scale) \div (4 * n))
                          \div n))
    IN Max(Div(numerator, denominator), 0)

\* _calculate_quality_score from the positive ratio alone, the number of
\* ratings left out
Nb_calculate_quality_score_ratio_only(avg_rating, num_ratings) ==
  IF num_ratings = 0 \/ avg_rating = 0 THEN 0
  ELSE Max(Div(avg_rating - Pct(250), Pct(250)), 0)

\* _calculate_quality_score
Nb_calculate_quality_score(avg_rating, num_ratings) ==
  IF num_ratings = 0 \/ avg_rating = 0 THEN 0
  ELSE LET positive_ratio == Max(Div(avg_rating - Pct(250), Pct(250)), 0)
           positive_ratings == num_ratings * positive_ratio
       IN Nb_wilson_score(positive_ratings, num_ratings)

\* _calculate_popularity_score
Nb_calculate_popularity_score(self, num_ratings) ==
  IF num_ratings = 0 THEN 0
  ELSE Min(Div(Ln(num_ratings + 1), Ln(self.max_ratings + 1)), Scale)

\* the body of the loop of get_recommendations: one RecommendationResult
Nb_score(self, fragrance, preferred_notes, preferred_accords) ==
  LET note_match ==
        Nb_calculate_note_preference_match(self, fragrance.notes,
                                           preferred_notes)
      accord_match ==
        Nb_calculate_accord_preference_match(self, fragrance.accords,
                                             preferred_accords)
      quality_score ==
        Nb_calculate_quality_score(fragrance.avg_rating, fragrance.num_ratings)
      popularity_score ==
        Nb_calculate_popularity_score(self, fragrance.num_ratings)
      final_score ==
        (note_match * self.NOTE_PREFERENCE_WEIGHT
         + accord_match * self.ACCORD_PREFERENCE_WEIGHT
         + quality_score * self.QUALITY_WEIGHT
         + popularity_score * self.POPULARITY_WEIGHT) \div Scale
  IN [fragrance |-> fragrance,
      score |-> final_score,
      explanation |-> [note_preference_match |-> note_match,
                       accord_preference_match |-> accord_match,
                       quality_score |-> quality_score,
                       popularity_score |-> popularity_score,
                       final_score |-> final_score]]

\* the candidates left in the order of the catalog
Nb_sort_left_out(candidates) == candidates

\* a descending sort that puts the later of two equal scores first
Nb_sort_later_first(candidates) ==
  SortDesc([i \in DOMAIN candidates |->
              candidates[Len(candidates) + 1 - i]], <<>>)

\* candidates.sort(key=lambda x: x.score, reverse=True)
Nb_sort(candidates) == SortDesc(candidates, <<>>)

\* get_recommendations raising when either list is empty (or for and)
Nb_get_recommendations_either_empty(self, preferred_notes, preferred_accords, limit) ==
  IF preferred_notes = <<>> \/ preferred_accords = <<>>
    THEN [error |-> "InvalidRequest", missing |-> "", scored |-> 0,
          mode |-> "preference", result |-> <<>>]
    ELSE
      LET fs == DictValues(self.fragrances)
          candidates ==
            [i \in DOMAIN fs |->
               Nb_score(self, fs[i], preferred_notes, preferred_accords)]
      IN [error |-> "", missing |-> "", scored |-> Len(candidates),
          mode |-> "preference",
          result |-> Slice(Nb_sort(candidates), limit)]

\* get_recommendations cutting to limit before it sorts
Nb_get_recommendations_cut_first(self, preferred_notes, preferred_accords, limit) ==
  IF preferred_notes = <<>> /\ preferred_accords = <<>>
    THEN [error |-> "InvalidRequest", missing |-> "", scored |-> 0,
          mode |-> "preference", result |-> <<>>]
    ELSE
      LET fs == DictValues(self.fragrances)
          candidates ==
            [i \in DOMAIN fs |->
               Nb_score(self, fs[i], preferred_notes, preferred_accords)]
      IN [error |-> "", missing |-> "", scored |-> Len(candidates),
          mode |-> "preference",
          result |-> Nb_sort(Slice(candidates, limit))]

\* NoteBasedRecommender.get_recommendations: what it raises or returns.
\* scored counts the candidates the loop scored.
Nb_get_recommendations(self, preferred_notes, preferred_accords, limit) ==
  IF preferred_notes = <<>> /\ preferred_accords = <<>>
    THEN [error |-> "InvalidRequest", missing |-> "", scored |-> 0,
          mode |-> "preference", result |-> <<>>]
    ELSE
      LET fs == DictValues(self.fragrances)
          candidates ==
            [i \in DOMAIN fs |->
               Nb_score(self, fs[i], preferred_notes, preferred_accords)]
      IN [error |-> "", missing |-> "", scored |-> Len(candidates),
          mode |-> "preference",
          result |-> Slice(Nb_sort(candidates), limit)]

-----------------------------------------------------------------------------
(* SimilarityRecommender *)

\* str.strip() on the names the model uses
Strip(s) ==
  CASE s = " woody" -> "woody"
    [] s = "fresh " -> "fresh"
    [] OTHER        -> s

\* {x.lower().strip() for x in names}
LowerStripSet(names) == { Strip(Lower(names[i])) : i \in DOMAIN names }

RECURSIVE Sim_calculate_note_frequencies(_, _)
Sim_calculate_note_frequencies(fragrances, frequencies) ==
  IF fragrances = <<>> THEN frequencies
  ELSE Sim_calculate_note_frequencies(Tail(fragrances),
         CounterAddAll(frequencies, Head(fragrances)[2].notes, 1))

RECURSIVE Sim_calculate_accord_frequencies(_, _)
Sim_calculate_accord_frequencies(fragrances, frequencies) ==
  IF fragrances = <<>> THEN frequencies
  ELSE Sim_calculate_accord_frequencies(Tail(fragrances),
         CounterAddAll(frequencies, Head(fragrances)[2].accords, 1))

\* __init__ with POPULARITY_WEIGHT = 0.10
Sim_init_popularity_10(fragrances) ==
  LET d == DictById(fragrances, <<>>)
  IN [fragrances |-> d,
      note_frequencies |-> Sim_calculate_note_frequencies(d, EmptyCounter),
      accord_frequencies |-> Sim_calculate_accord_frequencies(d, EmptyCounter),
      max_ratings |-> IF fragrances # <<>> THEN MaxNumRatings(fragrances)
                                           ELSE 1,
      NOTE_WEIGHT |-> Pct(40),
      ACCORD_WEIGHT |-> Pct(25),
      QUALITY_WEIGHT |-> Pct(25),
      POPULARITY_WEIGHT |-> Pct(10),
      DIVERSITY_WEIGHT |-> Pct(2),
      TOP_NOTE_WEIGHT |-> Pct(25),
      MIDDLE_NOTE_WEIGHT |-> Pct(40),
      BASE_NOTE_WEIGHT |-> Pct(35)]

\* SimilarityRecommender.__init__
Sim_init(fragrances) ==
  LET d == DictById(fragrances, <<>>)
  IN [fragrances |-> d,
      note_frequencies |-> Sim_calculate_note_frequencies(d, EmptyCounter),
      accord_frequencies |-> Sim_calculate_accord_frequencies(d, EmptyCounter),
      max_ratings |-> IF fragrances # <<>> THEN MaxNumRatings(fragrances)
                                           ELSE 1,
      NOTE_WEIGHT |-> Pct(40),
      ACCORD_WEIGHT |-> Pct(25),
      QUALITY_WEIGHT |-> Pct(25),
      POPULARITY_WEIGHT |-> Pct(8),
      DIVERSITY_WEIGHT |-> Pct(2),
      TOP_NOTE_WEIGHT |-> Pct(25),
      MIDDLE_NOTE_WEIGHT |-> Pct(40),
      BASE_NOTE_WEIGHT |-> Pct(35)]

\* frequencies.get(name, 1)
FrequencyGet(frequencies, name) ==
  IF name \in DOMAIN frequencies THEN frequencies[name] ELSE 1

\* 1 / math.log(frequency + 1)
RarityWeight(frequency) == Div(Scale, Ln(frequency + 1))

\* _create_collection_profile
RECURSIVE Sim_profile_loop(_, _)
Sim_profile_loop(target_fragrances, acc) ==
  IF target_fragrances = <<>> THEN acc
  ELSE
    LET fragrance == Head(target_fragrances)
        quality_weight == Max(fragrance.avg_rating \div 5, Pct(60))
        rated == fragrance.num_ratings > 0
    IN Sim_profile_loop(Tail(target_fragrances),
         [note_counts |->
            CounterAddAll(acc.note_counts, fragrance.notes, quality_weight),
          accord_counts |->
            CounterAddAll(acc.accord_counts, fragrance.accords,
                          quality_weight),
          total_ratings |->
            IF rated THEN acc.total_ratings + fragrance.num_ratings
                     ELSE acc.total_ratings,
          total_weighted_rating |->
            IF rated THEN acc.total_weighted_rating
                            + fragrance.avg_rating * fragrance.num_ratings
                     ELSE acc.total_weighted_rating])

Sim_create_collection_profile(target_fragrances) ==
  LET acc == Sim_profile_loop(target_fragrances,
               [note_counts |-> EmptyCounter, accord_counts |-> EmptyCounter,
                total_ratings |-> 0, total_weighted_rating |-> 0])
  IN [note_preferences |-> acc.note_counts,
      accord_preferences |-> acc.accord_counts,
      collection_quality |->
        IF acc.total_ratings > 0
          THEN acc.total_weighted_rating \div acc.total_ratings
          ELSE Pct(350),
      collection_size |-> Len(target_fragrances)]

\* sum(counter.values())
CounterTotal(c) == SumOver(DOMAIN c, c)

\* _calculate_accord_similarity_multi
Sim_calculate_accord_similarity_multi(self, collection_accords, candidate_accords) ==
  IF DOMAIN collection_accords = {} \/ candidate_accords = <<>> THEN 0
  ELSE
    LET candidate_set == LowerStripSet(candidate_accords)
        total_preference_weight == CounterTotal(collection_accords)
        shared == candidate_set \cap DOMAIN collection_accords
        weighted_similarity ==
          SumOver(shared,
            [a \in shared |->
               Mul(Div(collection_accords[a], total_preference_weight),
                   RarityWeight(FrequencyGet(self.accord_frequencies, a)))])
        coverage_bonus ==
          (Cardinality(shared) * Scale) \div Cardinality(candidate_set)
    IN Min(Mul(weighted_similarity, Pct(70)) + Mul(coverage_bonus, Pct(30)),
           Scale)

\* _get_collection_position_bonus adding the whole BASE_NOTE_WEIGHT
Sim_get_collection_position_bonus_full_base(self, note, candidate) ==
  LET in_middle == Lower(note) \in LowerSet(candidate.middle_notes)
      in_base == Lower(note) \in LowerSet(candidate.base_notes)
      in_top == Lower(note) \in LowerSet(candidate.top_notes)
      bonus == Scale
               + (IF in_middle THEN Mul(self.MIDDLE_NOTE_WEIGHT, Pct(80))
                               ELSE 0)
               + (IF in_base THEN self.BASE_NOTE_WEIGHT ELSE 0)
               + (IF in_top THEN Mul(self.TOP_NOTE_WEIGHT, Pct(60)) ELSE 0)
  IN Min(bonus, Pct(180))

\* _get_collection_position_bonus
Sim_get_collection_position_bonus(self, note, candidate) ==
  LET in_middle == Lower(note) \in LowerSet(candidate.middle_notes)
      in_base == Lower(note) \in LowerSet(candidate.base_notes)
      in_top == Lower(note) \in LowerSet(candidate.top_notes)
      bonus == Scale
               + (IF in_middle THEN Mul(self.MIDDLE_NOTE_WEIGHT, Pct(80))
                               ELSE 0)
               + (IF in_base THEN Mul(self.BASE_NOTE_WEIGHT, Pct(90)) ELSE 0)
               + (IF in_top THEN Mul(self.TOP_NOTE_WEIGHT, Pct(60)) ELSE 0)
  IN Min(bonus, Pct(180))

\* _calculate_note_similarity_multi
Sim_calculate_note_similarity_multi(self, collection_notes, candidate) ==
  IF DOMAIN collection_notes = {} \/ candidate.notes = <<>> THEN 0
  ELSE
    LET candidate_notes == LowerSet(candidate.notes)
        total_preference_weight == CounterTotal(collection_notes)
        shared == candidate_notes \cap DOMAIN collection_notes
        weighted_similarity ==
          SumOver(shared,
            [n \in shared |->
               Mul(Mul(Div(collection_notes[n], total_preference_weight),
                       RarityWeight(FrequencyGet(self.note_frequencies, n))),
                   Sim_get_collection_position_bonus(self, n, candidate))])
        coverage ==
          (Cardinality(shared) * Scale) \div Cardinality(candidate_notes)
    IN Min(Mul(weighted_similarity, Pct(80)) + Mul(coverage, Pct(20)), Scale)

\* _calculate_accord_similarity
Sim_calculate_accord_similarity(self, target_accords, candidate_accords) ==
  IF target_accords = <<>> \/ candidate_accords = <<>> THEN 0
  ELSE
    LET target_set == LowerStripSet(target_accords)
        candidate_set == LowerStripSet(candidate_accords)
        intersection == target_set \cap candidate_set
        union == target_set \cup candidate_set
    IN IF intersection = {} THEN 0
       ELSE
         LET weighted_similarity ==
               SumOver(intersection,
                 [a \in intersection |->
                    RarityWeight(FrequencyGet(self.accord_frequencies, a))])
             jaccard_base ==
               (Cardinality(intersection) * Scale) \div Cardinality(union)
         IN Min(Mul(jaccard_base, Pct(30))
                + Mul(Min(weighted_similarity \div Cardinality(union), Scale),
                      Pct(70)),
                Scale)

\* _get_position_bonus
Sim_get_position_bonus(self, note, target, candidate) ==
  LET both(t, c) == note \in LowerSet(t) /\ note \in LowerSet(c)
      bonus == Scale
               + (IF both(target.top_notes, candidate.top_notes)
                    THEN self.TOP_NOTE_WEIGHT ELSE 0)
               + (IF both(target.middle_notes, candidate.middle_notes)
                    THEN self.MIDDLE_NOTE_WEIGHT ELSE 0)
               + (IF both(target.base_notes, candidate.base_notes)
                    THEN self.BASE_NOTE_WEIGHT ELSE 0)
  IN Min(bonus, Pct(200))

\* _calculate_note_similarity
Sim_calculate_note_similarity(self, target_notes, candidate_notes, target_fragrance, candidate_fragrance) ==
  IF target_notes = <<>> \/ candidate_notes = <<>> THEN 0
  ELSE
    LET target_set == LowerSet(target_notes)
        candidate_set == LowerSet(candidate_notes)
        intersection == target_set \cap candidate_set
        union == target_set \cup candidate_set
    IN IF intersection = {} THEN 0
       ELSE
         LET weighted_similarity ==
               SumOver(intersection,
                 [n \in intersection |->
                    Mul(RarityWeight(FrequencyGet(self.note_frequencies, n)),
                        Sim_get_position_bonus(self, n, target_fragrance,
                                               candidate_fragrance))])
             jaccard_base ==
               (Cardinality(intersection) * Scale) \div Cardinality(union)
         IN Min(Mul(jaccard_base, Pct(40))
                + Mul(Min(weighted_similarity \div Cardinality(union), Scale),
                      Pct(60)),
                Scale)

\* _wilson_score
Sim_wilson_score(positive_ratings, total_ratings) ==
  IF total_ratings = 0 THEN 0
  ELSE
    LET p == positive_ratings \div total_ratings
        n == total_ratings
        z == Pct(196)
        zz == Mul(z, z)
        denominator == Scale + zz \div n
        numerator ==
          p + zz \div (2 * n)
            - Mul(z, Sqrt((p * (Scale - p) + (zz * Scale) \div (4 * n))
                          \div n))
    IN Max(Div(numerator, denominator), 0)

\* _calculate_quality_score
Sim_calculate_quality_score(avg_rating, num_ratings) ==
  IF num_ratings = 0 \/ avg_rating = 0 THEN 0
  ELSE LET positive_ratio == Max(Div(avg_rating - Pct(250), Pct(250)), 0)
           positive_ratings == num_ratings * positive_ratio
       IN Sim_wilson_score(positive_ratings, num_ratings)

\* _calculate_popularity_score
Sim_calculate_popularity_score(self, num_ratings) ==
  IF num_ratings = 0 THEN 0
  ELSE Min(Div(Ln(num_ratings + 1), Ln(self.max_ratings + 1)), Scale)

\* whether scoring a fragrance on an instance raises ZeroDivisionError or a
\* math domain error, at the sites every scoring loop shares: the
\* 1 / math.log(frequency + 1) of a note or accord of the fragrance,
\* _wilson_score's divisions by n and by the denominator and its math.sqrt,
\* and _calculate_popularity_score's logarithms and their quotient
Score_raises(self, fragrance) ==
  LET rarity_raises(frequencies, names) ==
        \E name \in LowerSet(names) : FrequencyGet(frequencies, name) + 1 <= 1
      quality_raises ==
        /\ fragrance.num_ratings # 0 /\ fragrance.avg_rating # 0
        /\ LET p == Max(Div(fragrance.avg_rating - Pct(250), Pct(250)), 0)
               n == fragrance.num_ratings
               zz == Mul(Pct(196), Pct(196))
           IN \/ p * (Scale - p) + (zz * Scale) \div (4 * n) < 0
              \/ n < 0
              \/ Scale + zz \div n = 0
      popularity_raises ==
        /\ fragrance.num_ratings # 0
        /\ \/ fragrance.num_ratings + 1 <= 0
           \/ self.max_ratings + 1 <= 1
  IN \/ rarity_raises(self.note_frequencies, fragrance.notes)
     \/ rarity_raises(self.accord_frequencies, fragrance.accords)
     \/ quality_raises
     \/ popularity_raises

\* whether the collection loop raises at the divisions by the total weight of
\* the profile's notes or accords, made once the profile holds any
Sim_profile_raises(collection_profile) ==
  \/ /\ DOMAIN collection_profile.note_preferences # {}
     /\ CounterTotal(collection_profile.note_preferences) = 0
  \/ /\ DOMAIN collection_profile.accord_preferences # {}
     /\ CounterTotal(collection_profile.accord_preferences) = 0

\* _calculate_diversity_bonus without the cap at 0.5
Sim_calculate_diversity_bonus_uncapped(candidate, collection_profile, target_fragrances) ==
  IF Len(target_fragrances) < 2 THEN 0
  ELSE
    LET candidate_accords == LowerSet(candidate.accords)
        collection_accords == collection_profile.accord_preferences
        total_accord_weight == CounterTotal(collection_accords)
        gain(a) ==
          IF total_accord_weight > 0
            THEN LET representation ==
                       Div(CounterGet(collection_accords, a),
                           total_accord_weight)
                 IN IF representation < Pct(30) THEN Pct(30) - representation
                                                ELSE 0
            ELSE 0
        diversity_score ==
          SumOver(candidate_accords, [a \in candidate_accords |-> gain(a)])
    IN diversity_score

\* _calculate_diversity_bonus
Sim_calculate_diversity_bonus(candidate, collection_profile, target_fragrances) ==
  IF Len(target_fragrances) < 2 THEN 0
  ELSE
    LET candidate_accords == LowerSet(candidate.accords)
        collection_accords == collection_profile.accord_preferences
        total_accord_weight == CounterTotal(collection_accords)
        gain(a) ==
          IF total_accord_weight > 0
            THEN LET representation ==
                       Div(CounterGet(collection_accords, a),
                           total_accord_weight)
                 IN IF representation < Pct(30) THEN Pct(30) - representation
                                                ELSE 0
            ELSE 0
        diversity_score ==
          SumOver(candidate_accords, [a \in candidate_accords |-> gain(a)])
    IN Min(diversity_score, Pct(50))

\* the body of the loop of _get_single_fragrance_recommendations
Sim_score_single(self, target, candidate) ==
  LET note_similarity ==
        Sim_calculate_note_similarity(self, target.notes, candidate.notes,
                                      target, candidate)
      accord_similarity ==
        Sim_calculate_accord_similarity(self, target.accords,
                                        candidate.accords)
      quality_score ==
        Sim_calculate_quality_score(candidate.avg_rating,
                                    candidate.num_ratings)
      popularity_score ==
        Sim_calculate_popularity_score(self, candidate.num_ratings)
      final_score ==
        (note_similarity * self.NOTE_WEIGHT
         + accord_similarity * self.ACCORD_WEIGHT
         + quality_score * self.QUALITY_WEIGHT
         + popularity_score * self.POPULARITY_WEIGHT) \div Scale
  IN [fragrance |-> candidate,
      score |-> final_score,
      explanation |-> [note_similarity |-> note_similarity,
                       accord_similarity |-> accord_similarity,
                       quality_score |-> quality_score,
                       popularity_score |-> popularity_score,
                       final_score |-> final_score]]

\* the loop body adding the diversity bonus to the score without an entry
\* for it in the explanation
Sim_score_collection_unreported(self, collection_profile, target_fragrances, candidate) ==
  LET note_similarity ==
        Sim_calculate_note_similarity_multi(self,
          collection_profile.note_preferences, candidate)
      accord_similarity ==
        Sim_calculate_accord_similarity_multi(self,
          collection_profile.accord_preferences, candidate.accords)
      quality_score ==
        Sim_calculate_quality_score(candidate.avg_rating,
                                    candidate.num_ratings)
      popularity_score ==
        Sim_calculate_popularity_score(self, candidate.num_ratings)
      diversity_bonus ==
        Sim_calculate_diversity_bonus(candidate, collection_profile,
                                      target_fragrances)
      final_score ==
        (note_similarity * self.NOTE_WEIGHT
         + accord_similarity * self.ACCORD_WEIGHT
         + quality_score * self.QUALITY_WEIGHT
         + popularity_score * self.POPULARITY_WEIGHT
         + diversity_bonus * self.DIVERSITY_WEIGHT) \div Scale
  IN [fragrance |-> candidate,
      score |-> final_score,
      explanation |-> [note_similarity |-> note_similarity,
                       accord_similarity |-> accord_similarity,
                       quality_score |-> quality_score,
                       popularity_score |-> popularity_score,
                       final_score |-> final_score]]

\* the body of the loop of _get_collection_recommendations
Sim_score_collection(self, collection_profile, target_fragrances, candidate) ==
  LET note_similarity ==
        Sim_calculate_note_similarity_multi(self,
          collection_profile.note_preferences, candidate)
      accord_similarity ==
        Sim_calculate_accord_similarity_multi(self,
          collection_profile.accord_preferences, candidate.accords)
      quality_score ==
        Sim_calculate_quality_score(candidate.avg_rating,
                                    candidate.num_ratings)
      popularity_score ==
        Sim_calculate_popularity_score(self, candidate.num_ratings)
      diversity_bonus ==
        Sim_calculate_diversity_bonus(candidate, collection_profile,
                                      target_fragrances)
      final_score ==
        (note_similarity * self.NOTE_WEIGHT
         + accord_similarity * self.ACCORD_WEIGHT
         + quality_score * self.QUALITY_WEIGHT
         + popularity_score * self.POPULARITY_WEIGHT
         + diversity_bonus * self.DIVERSITY_WEIGHT) \div Scale
  IN [fragrance |-> candidate,
      score |-> final_score,
      explanation |-> [note_similarity |-> note_similarity,
                       accord_similarity |-> accord_similarity,
                       quality_score |-> quality_score,
                       popularity_score |-> popularity_score,
                       diversity_bonus |-> diversity_bonus,
                       final_score |-> final_score]]

\* the dict entries a loop visits: those whose key passes the continue test
RECURSIVE KeepItems(_, _)
KeepItems(items, skip) ==
  IF items = <<>> THEN <<>>
  ELSE IF Head(items)[1] \in skip
         THEN KeepItems(Tail(items), skip)
         ELSE <<Head(items)[2]>> \o KeepItems(Tail(items), skip)

\* for candidate_id, candidate in self.fragrances.items():
\*     if candidate_id == target.id: continue
Sim_single_candidates(self, target) == KeepItems(self.fragrances, {target.id})

\* the collection loop skipping only the first target
Sim_collection_candidates_first_only(self, target_fragrances) ==
  KeepItems(self.fragrances,
            IF target_fragrances = <<>> THEN {}
                                        ELSE {target_fragrances[1].id})

\* target_ids = {f.id for f in target_fragrances}; ... if candidate_id in
\* target_ids: continue
Sim_collection_candidates(self, target_fragrances) ==
  KeepItems(self.fragrances,
            { target_fragrances[i].id : i \in DOMAIN target_fragrances })

\* candidates.sort(key=lambda x: x.score): reverse=True left out
RECURSIVE InsertAsc(_, _)
InsertAsc(sorted, x) ==
  IF sorted = <<>> THEN <<x>>
  ELSE IF Head(sorted).score <= x.score
         THEN <<Head(sorted)>> \o InsertAsc(Tail(sorted), x)
         ELSE <<x>> \o sorted

RECURSIVE SortAsc(_, _)
SortAsc(candidates, sorted) ==
  IF candidates = <<>> THEN sorted
  ELSE SortAsc(Tail(candidates), InsertAsc(sorted, Head(candidates)))

Sim_sort_ascending(candidates) == SortAsc(candidates, <<>>)

\* candidates.sort(key=lambda x: x.score, reverse=True)
Sim_sort(candidates) == SortDesc(candidates, <<>>)

\* _get_single_fragrance_recommendations
Sim_get_single_fragrance_recommendations(self, target, limit) ==
  LET cs == Sim_single_candidates(self, target)
      candidates == [i \in DOMAIN cs |-> Sim_score_single(self, target, cs[i])]
  IN [error |-> "", missing |-> "", scored |-> Len(candidates),
      mode |-> "single", result |-> Slice(Sim_sort(candidates), limit)]

\* _get_collection_recommendations
Sim_get_collection_recommendations(self, target_fragrances, limit) ==
  LET collection_profile == Sim_create_collection_profile(target_fragrances)
      cs == Sim_collection_candidates(self, target_fragrances)
      candidates ==
        [i \in DOMAIN cs |->
           Sim_score_collection(self, collection_profile, target_fragrances,
                                cs[i])]
  IN [error |-> "", missing |-> "", scored |-> Len(candidates),
      mode |-> "collection", result |-> Slice(Sim_sort(candidates), limit)]

\* if isinstance(target_fragrance_ids, str): target_ids = [target_fragrance_ids]
Sim_target_ids(target_fragrance_ids) ==
  IF target_fragrance_ids.type = "str" THEN <<target_fragrance_ids.value>>
                                       ELSE target_fragrance_ids.value

\* the validation loop: the first target id that is not in self.fragrances,
\* 0 when every one is
Sim_first_missing(self, target_ids) ==
  IF \A i \in DOMAIN target_ids : target_ids[i] \in DictKeys(self.fragrances)
    THEN 0
    ELSE CHOOSE i \in DOMAIN target_ids :
           /\ target_ids[i] \notin DictKeys(self.fragrances)
           /\ \A j \in 1..(i - 1) : target_ids[j] \in DictKeys(self.fragrances)

\* the ids of target_ids that self.fragrances holds
RECURSIVE KnownIds(_, _)
KnownIds(self, target_ids) ==
  IF target_ids = <<>> THEN <<>>
  ELSE IF Head(target_ids) \in DictKeys(self.fragrances)
         THEN <<Head(target_ids)>> \o KnownIds(self, Tail(target_ids))
         ELSE KnownIds(self, Tail(target_ids))

\* get_recommendations passing over the ids it does not know
Sim_get_recommendations_skip_missing(self, target_fragrance_ids, limit) ==
  LET target_ids == KnownIds(self, Sim_target_ids(target_fragrance_ids))
      target_fragrances ==
        [i \in DOMAIN target_ids |-> DictValue(self.fragrances, target_ids[i])]
  IN IF Len(target_fragrances) = 1
       THEN Sim_get_single_fragrance_recommendations(
              self, target_fragrances[1], limit)
       ELSE Sim_get_collection_recommendations(self, target_fragrances, limit)

\* SimilarityRecommender.get_recommendations
Sim_get_recommendations(self, target_fragrance_ids, limit) ==
  LET target_ids == Sim_target_ids(target_fragrance_ids)
      bad == Sim_first_missing(self, target_ids)
  IN IF bad # 0
       THEN [error |-> "NotFound", missing |-> target_ids[bad], scored |-> 0,
             mode |-> "", result |-> <<>>]
       ELSE
         LET target_fragrances ==
               [i \in DOMAIN target_ids |->
                  DictValue(self.fragrances, target_ids[i])]
         IN IF Len(target_fragrances) = 1
              THEN Sim_get_single_fragrance_recommendations(
                     self, target_fragrances[1], limit)
              ELSE Sim_get_collection_recommendations(
                     self, target_fragrances, limit)

\* get_similar_fragrances taking the mode from the number of distinct ids
Api_analysis_type_distinct(target_fragrance_ids) ==
  IF Cardinality(Range(Sim_target_ids(target_fragrance_ids))) = 1
    THEN "single" ELSE "collection"

\* get_similar_fragrances (recomender.py:170-172, 206): the analysis_type of
\* the response, from the ids of the request normalised to a list
Api_analysis_type(target_fragrance_ids) ==
  IF Len(Sim_target_ids(target_fragrance_ids)) = 1
    THEN "single" ELSE "collection"

\* a call counting the names it was asked for into self.note_frequencies
RECURSIVE PrefNames(_)
PrefNames(prefs) ==
  IF prefs = <<>> THEN <<>>
  ELSE <<Head(prefs).name>> \o PrefNames(Tail(prefs))

Nb_after_call_counting(self, preferred_notes, preferred_accords) ==
  [self EXCEPT !.note_frequencies =
     CounterAddAll(@, PrefNames(preferred_notes), 1)]

\* a call building the profile of its targets in self.note_frequencies
RECURSIVE TargetNotes(_, _)
TargetNotes(self, target_ids) ==
  IF target_ids = <<>> THEN <<>>
  ELSE (IF Head(target_ids) \in DictKeys(self.fragrances)
          THEN DictValue(self.fragrances, Head(target_ids)).notes
          ELSE <<>>)
       \o TargetNotes(self, Tail(target_ids))

Sim_after_call_counting(self, target_fragrance_ids) ==
  [self EXCEPT !.note_frequencies =
     CounterAddAll(@, TargetNotes(self, Sim_target_ids(target_fragrance_ids)),
                   1)]

\* What a call leaves in the instance: get_recommendations and the helpers it
\* calls assign to no attribute of self (counts go to local Counters).
Nb_after_call(self, preferred_notes, preferred_accords) == self
Sim_after_call(self, target_fragrance_ids) == self

-----------------------------------------------------------------------------
(* Requests *)

\* the NotePreference(name, importance) entries requests draw on
NotePrefPool ==
  << [name |-> "vanilla", importance |-> 9],
     [name |-> "Cedar", importance |-> 2],
     [name |-> "oud", importance |-> 9] >>
AccordPrefPool ==
  << [name |-> "Woody", importance |-> 7],
     [name |-> "fresh", importance |-> 3] >>

\* the entries of pool at the indices in picks, in the order of the pool
RECURSIVE Pick(_, _)
Pick(pool, picks) ==
  IF picks = {} THEN <<>>
  ELSE LET i == CHOOSE x \in picks : \A y \in picks : x <= y
       IN <<pool[i]>> \o Pick(pool, picks \ {i})

\* lists of at most MaxPrefs entries of the pool, names distinct (duplicates
\* are rejected by the caller, schemas/frags.py validate_preferences)
PrefLists(pool) ==
  { Pick(pool, picks) :
      picks \in { x \in SUBSET DOMAIN pool : Cardinality(x) <= MaxPrefs } }

\* an argument that may be left out: None, or a list
NoneArg == [given |-> FALSE, items |-> <<>>]
ListArg(items) == [given |-> TRUE, items |-> items]
\* bool(x) of such an argument, and x or []
Truthy(x) == x.given /\ x.items # <<>>
OrEmpty(x) == IF Truthy(x) THEN x.items ELSE <<>>

NotePrefArgs ==
  {NoneArg} \cup { ListArg(p) : p \in PrefLists(NotePrefPool) }
AccordPrefArgs ==
  {NoneArg} \cup { ListArg(p) : p \in PrefLists(AccordPrefPool) }

Limits == 0..MaxLimit

\* the ids a request can name: those of the catalog and one it does not hold
TargetPool(fragrances) ==
  { fragrances[i].id : i \in DOMAIN fragrances } \cup {MissingId}

\* target_fragrance_ids: a bare str or a list of str
TargetArgs(fragrances) ==
  { [type |-> "str", value |-> t] : t \in TargetPool(fragrances) }
  \cup UNION { { [type |-> "list", value |-> ts] :
                   ts \in [1..n -> TargetPool(fragrances)] }
               : n \in 0..MaxTargets }

NoReq == [kind |-> "none"]
NoOutcome == [error |-> "", missing |-> "", scored |-> 0, mode |-> "",
              result |-> <<>>]
NoCall == [req |-> NoReq, outcome |-> NoOutcome]

\* the call a request stands for, on the instances as they are
NoteCall(self, r) ==
  Nb_get_recommendations(self, OrEmpty(r.preferred_notes),
                         OrEmpty(r.preferred_accords), r.limit)
SimCall(self, r) ==
  Sim_get_recommendations(self, r.target_fragrance_ids, r.limit)
Call(r) == IF r.kind = "preference" THEN NoteCall(nb, r) ELSE SimCall(sim, r)

-----------------------------------------------------------------------------
(* Catalog load: from_database_rows and _clean_note_list, the same code in  *)
(* both recommenders.                                                       *)
(*                                                                          *)
(* A Python str is a sequence of pieces: a word, a numeral, the blank " ",  *)
(* or one of the delimiters "," and ";".  A value of a row is a record      *)
(* [kind, s, items, n]: kind "absent" (the key is not in the row), "none",  *)
(* "str" (s its pieces), "list" (items its elements), "int" (n the number), *)
(* "float" (n the number times Scale) or "other" (a non-empty dict).        *)

MaxLoadRows == 2    \* rows handed to a loader

Raw(kind, s, items, n) == [kind |-> kind, s |-> s, items |-> items, n |-> n]
RawAbsent == Raw("absent", <<>>, <<>>, 0)
RawNone == Raw("none", <<>>, <<>>, 0)
RawStr(s) == Raw("str", s, <<>>, 0)
RawList(items) == Raw("list", <<>>, items, 0)
RawInt(n) == Raw("int", <<>>, <<>>, n)
RawFloat(n) == Raw("float", <<>>, <<>>, n)
RawOther == Raw("other", <<>>, <<>>, 0)

\* row.get(key, default)
RowGet(v, default) == IF v.kind = "absent" THEN default ELSE v

\* bool(v)
RawTruthy(v) ==
  CASE v.kind \in {"absent", "none"} -> FALSE
    [] v.kind = "str" -> v.s # <<>>
    [] v.kind = "list" -> v.items # <<>>
    [] v.kind \in {"int", "float"} -> v.n # 0
    [] OTHER -> TRUE

\* the numerals the model writes, with int(...) and float(...) of each;
\* int() accepts no decimal point
Numerals ==
  [n12 |-> [text |-> "12", int_ok |-> TRUE, int |-> 12, float |-> 12 * Scale],
   n45 |-> [text |-> "4.5", int_ok |-> FALSE, int |-> 0, float |-> Pct(450)]]
NumeralOf(piece) ==
  IF \E k \in DOMAIN Numerals : Numerals[k].text = piece
    THEN {Numerals[CHOOSE k \in DOMAIN Numerals : Numerals[k].text = piece]}
    ELSE {}

\* str.strip(): the leading and trailing blanks removed
RECURSIVE StrLStrip(_)
StrLStrip(s) ==
  IF s # <<>> /\ Head(s) = " " THEN StrLStrip(Tail(s)) ELSE s
RECURSIVE StrRStrip(_)
StrRStrip(s) ==
  IF s # <<>> /\ s[Len(s)] = " " THEN StrRStrip(SubSeq(s, 1, Len(s) - 1))
                                 ELSE s
StrStrip(s) == StrRStrip(StrLStrip(s))

\* str.lower(), piece by piece
StrLower(s) == [i \in DOMAIN s |-> Lower(s[i])]

\* str.split(sep): the segments between the occurrences of sep; cur is the
\* segment being read
RECURSIVE StrSplitFrom(_, _, _)
StrSplitFrom(s, sep, cur) ==
  IF s = <<>> THEN <<cur>>
  ELSE IF Head(s) = sep
         THEN <<cur>> \o StrSplitFrom(Tail(s), sep, <<>>)
         ELSE StrSplitFrom(Tail(s), sep, Append(cur, Head(s)))
StrSplit(s, sep) == StrSplitFrom(s, sep, <<>>)

\* str(v) of a list element
PyStr(v) ==
  CASE v.kind = "str" -> v.s
    [] v.kind = "none" -> <<"None">>
    [] v.kind = "int" -> IF v.n = 12 THEN <<"12">> ELSE <<"0">>
    [] v.kind = "float" -> IF v.n = Pct(450) THEN <<"4.5">> ELSE <<"0.0">>
    [] OTHER -> <<"{...}">>

\* the elements of a sequence that pass a test, in order
RECURSIVE SelectSeqBy(_, _)
SelectSeqBy(s, keep) ==
  IF s = <<>> THEN <<>>
  ELSE IF keep[1] THEN <<Head(s)>> \o SelectSeqBy(Tail(s), Tail(keep))
                  ELSE SelectSeqBy(Tail(s), Tail(keep))

\* _clean_note_list without the strip of the segments of a string
clean_note_list_unstripped(note_list) ==
  IF ~RawTruthy(note_list) THEN <<>>
  ELSE IF note_list.kind = "list" THEN
    LET items == note_list.items
        kept == SelectSeqBy(items,
                  [i \in DOMAIN items |->
                     RawTruthy(items[i])
                     /\ StrStrip(PyStr(items[i])) # <<>>])
    IN [i \in DOMAIN kept |-> StrLower(StrStrip(PyStr(kept[i])))]
  ELSE IF note_list.kind = "str" THEN
    LET parts == StrSplit(note_list.s, ",")
        kept == SelectSeqBy(parts,
                  [i \in DOMAIN parts |-> StrStrip(parts[i]) # <<>>])
    IN [i \in DOMAIN kept |-> StrLower(kept[i])]
  ELSE <<>>

\* _clean_note_list: the notes of a field, each a Python str
clean_note_list(note_list) ==
  IF ~RawTruthy(note_list) THEN <<>>
  ELSE IF note_list.kind = "list" THEN
    LET items == note_list.items
        kept == SelectSeqBy(items,
                  [i \in DOMAIN items |->
                     RawTruthy(items[i])
                     /\ StrStrip(PyStr(items[i])) # <<>>])
    IN [i \in DOMAIN kept |-> StrLower(StrStrip(PyStr(kept[i])))]
  ELSE IF note_list.kind = "str" THEN
    LET parts == StrSplit(note_list.s, ",")
        kept == SelectSeqBy(parts,
                  [i \in DOMAIN parts |-> StrStrip(parts[i]) # <<>>])
    IN [i \in DOMAIN kept |-> StrLower(StrStrip(kept[i]))]
  ELSE <<>>

\* float(v): a number, or the text of one; anything else raises
PyFloat(v) ==
  CASE v.kind = "int" -> [raised |-> FALSE, value |-> v.n * Scale]
    [] v.kind = "float" -> [raised |-> FALSE, value |-> v.n]
    [] v.kind = "str" ->
         LET s == StrStrip(v.s)
         IN IF Len(s) = 1 /\ NumeralOf(s[1]) # {}
              THEN [raised |-> FALSE,
                    value |-> (CHOOSE x \in NumeralOf(s[1]) : TRUE).float]
              ELSE [raised |-> TRUE, value |-> 0]
    [] OTHER -> [raised |-> TRUE, value |-> 0]

\* int(v): a number (a float is truncated), or the text of a whole number;
\* anything else raises
PyInt(v) ==
  CASE v.kind = "int" -> [raised |-> FALSE, value |-> v.n]
    [] v.kind = "float" -> [raised |-> FALSE, value |-> v.n \div Scale]
    [] v.kind = "str" ->
         LET s == StrStrip(v.s)
         IN IF Len(s) = 1 /\ NumeralOf(s[1]) # {}
               /\ (CHOOSE x \in NumeralOf(s[1]) : TRUE).int_ok
              THEN [raised |-> FALSE,
                    value |-> (CHOOSE x \in NumeralOf(s[1]) : TRUE).int]
              ELSE [raised |-> TRUE, value |-> 0]
    [] OTHER -> [raised |-> TRUE, value |-> 0]

\* the body of the loop of from_database_rows: the Fragrance of a row, its
\* notes Python strs, or the exception of float() / int()
LoadRow(row) ==
  LET top_notes == clean_note_list(RowGet(row.top_notes, RawList(<<>>)))
      middle_notes == clean_note_list(RowGet(row.middle_notes, RawList(<<>>)))
      base_notes == clean_note_list(RowGet(row.base_notes, RawList(<<>>)))
      accords == clean_note_list(RowGet(row.main_accords, RawList(<<>>)))
      avg_rating == PyFloat(RowGet(row.average_rating, RawFloat(0)))
      num_ratings == PyInt(RowGet(row.total_ratings, RawInt(0)))
  IN [raised |-> avg_rating.raised \/ num_ratings.raised,
      fragrance |->
        [id |-> row.id,
         notes |-> top_notes \o middle_notes \o base_notes,
         top_notes |-> top_notes, middle_notes |-> middle_notes,
         base_notes |-> base_notes, accords |-> accords,
         avg_rating |-> avg_rating.value, num_ratings |-> num_ratings.value]]

\* the loop of from_database_rows: the fragrances built before the first
\* row that raises, if one does
RECURSIVE LoadRows(_, _)
LoadRows(rows, fragrances) ==
  IF rows = <<>> THEN [raised |-> FALSE, fragrances |-> fragrances]
  ELSE LET r == LoadRow(Head(rows))
       IN IF r.raised THEN [raised |-> TRUE, fragrances |-> fragrances]
          ELSE LoadRows(Tail(rows), Append(fragrances, r.fragrance))

\* a Python str as the name the recommenders compare: its pieces joined
RECURSIVE Text(_)
Text(s) == IF s = <<>> THEN "" ELSE Head(s) \o Text(Tail(s))
Texts(list) == [i \in DOMAIN list |-> Text(list[i])]

\* the Fragrance records as the recommenders hold them
FragranceOf(f) ==
  [id |-> f.id, notes |-> Texts(f.notes), top_notes |-> Texts(f.top_notes),
   middle_notes |-> Texts(f.middle_notes), base_notes |-> Texts(f.base_notes),
   accords |-> Texts(f.accords), avg_rating |-> f.avg_rating,
   num_ratings |-> f.num_ratings]
FragrancesOf(fragrances) ==
  [i \in DOMAIN fragrances |-> FragranceOf(fragrances[i])]

\* no load and no separate call in progress
NoLoad == [pc |-> "start", cls |-> "", raised |-> FALSE, fragrances |-> <<>>]
NoProbe ==
  [pc |-> "none", note_frequencies |-> EmptyCounter, prefs |-> <<>>,
   match_a |-> -1, match_b |-> -1]
UnitIdle == raw_rows = <<>> /\ load = NoLoad /\ probe = NoProbe

-----------------------------------------------------------------------------
(* The process-wide recommenders, recomender.py *)

MaxSnapshots == 2   \* catalog snapshots the database goes through
MaxInits == 2       \* initialize_recommenders tasks at a time
MaxReaders == 2     \* request tasks at a time

\* the catalog the database holds after its v-th write; none before the first
Snapshot(v) ==
  [i \in 1..v |->
     Fragrance(Ids[i], TemplateSeq[((i + v) % Len(TemplateSeq)) + 1])]

\* the module globals start as None (recomender.py:34-35)
NoneRef == [loaded |-> FALSE]
Ref(obj) == [loaded |-> TRUE, obj |-> obj]

\* a list of str as a value of a row
RawStrList(names) == RawList([i \in DOMAIN names |-> RawStr(<<names[i]>>)])

\* lines 270-282: the rows initialize_recommenders hands to both loaders,
\* each note field a list and each rating a number
FragranceRows(fragrances_db) ==
  [i \in DOMAIN fragrances_db |->
     LET frag_db == fragrances_db[i]
     IN [id |-> frag_db.id,
         top_notes |-> RawStrList(frag_db.top_notes),
         middle_notes |-> RawStrList(frag_db.middle_notes),
         base_notes |-> RawStrList(frag_db.base_notes),
         main_accords |-> RawStrList(frag_db.accords),
         average_rating |-> RawFloat(frag_db.avg_rating),
         total_ratings |-> RawInt(frag_db.num_ratings)]]

\* NoteBasedRecommender.from_database_rows: the recommender constructed from
\* the rows, or the exception of a row
Nb_from_database_rows(rows_in) ==
  LET l == LoadRows(rows_in, <<>>)
  IN [raised |-> l.raised, obj |-> Nb_init(FragrancesOf(l.fragrances))]

\* SimilarityRecommender.from_database_rows raising on catalogs of two or
\* more rows
Sim_from_database_rows_raising(rows_in) ==
  LET l == LoadRows(rows_in, <<>>)
  IN [raised |-> Len(rows_in) >= 2,
      obj |-> Sim_init(FragrancesOf(l.fragrances))]

\* SimilarityRecommender.from_database_rows
Sim_from_database_rows(rows_in) ==
  LET l == LoadRows(rows_in, <<>>)
  IN [raised |-> l.raised, obj |-> Sim_init(FragrancesOf(l.fragrances))]

InitTasks == 1..MaxInits
Readers == 1..MaxReaders
NoHold == [pc |-> "start", note |-> NoneRef, sim |-> NoneRef]

ReloadIdle ==
  /\ note_based_recommender = NoneRef
  /\ similarity_recommender = NoneRef
  /\ db = 0
  /\ init_pc = [i \in InitTasks |-> "idle"]
  /\ init_rows = [i \in InitTasks |-> <<>>]
  /\ reader = [i \in Readers |-> NoHold]

EngineIdle ==
  /\ catalog = <<>>
  /\ nb = Nb_init(<<>>)
  /\ sim = Sim_init(<<>>)
  /\ pc = "idle"
  /\ req = NoReq
  /\ outcome = NoOutcome
  /\ prev = NoCall

InitReload == EngineIdle /\ ReloadIdle /\ UnitIdle /\ AuthIdle

\* the pipeline writes the next catalog to the database
DbWrite ==
  /\ db < MaxSnapshots
  /\ db' = db + 1
  /\ UNCHANGED <<note_based_recommender, similarity_recommender, init_pc,
                 init_rows, reader>>
  /\ UNCHANGED engineVars
  /\ UNCHANGED unitVars
  /\ UNCHANGED authVars

\* initialize_recommenders up to its first suspension, the await of
\* session.execute (lines 251-261)
InitStart(i) ==
  /\ init_pc[i] = "idle"
  /\ init_pc' = [init_pc EXCEPT ![i] = "querying"]
  /\ UNCHANGED <<note_based_recommender, similarity_recommender, db,
                 init_rows, reader>>
  /\ UNCHANGED engineVars
  /\ UNCHANGED unitVars
  /\ UNCHANGED authVars

\* the database answers the select with the catalog it holds
InitQueryAnswers(i) ==
  /\ init_pc[i] = "querying"
  /\ init_pc' = [init_pc EXCEPT ![i] = "loaded"]
  /\ init_rows' = [init_rows EXCEPT ![i] = Snapshot(db)]
  /\ UNCHANGED <<note_based_recommender, similarity_recommender, db, reader>>
  /\ UNCHANGED engineVars
  /\ UNCHANGED unitVars
  /\ UNCHANGED authVars

\* the select fails: the exception leaves the function (lines 293-295)
InitQueryFails(i) ==
  /\ init_pc[i] = "querying"
  /\ init_pc' = [init_pc EXCEPT ![i] = "idle"]
  /\ UNCHANGED <<note_based_recommender, similarity_recommender, db,
                 init_rows, reader>>
  /\ UNCHANGED engineVars
  /\ UNCHANGED unitVars
  /\ UNCHANGED authVars

\* the task resumes and runs lines 262-291, which hold no await: the empty
\* check, the rows, then the two assignments one after the other, the
\* second not reached when a loader raises
InitResume(i) ==
  /\ init_pc[i] = "loaded"
  /\ init_pc' = [init_pc EXCEPT ![i] = "idle"]
  /\ init_rows' = [init_rows EXCEPT ![i] = <<>>]
  /\ LET fragrances_db == init_rows[i]
         rows == FragranceRows(fragrances_db)
         n == Nb_from_database_rows(rows)
         s == Sim_from_database_rows(rows)
     IN IF fragrances_db = <<>>
          THEN UNCHANGED <<note_based_recommender, similarity_recommender>>
          ELSE IF n.raised
            THEN UNCHANGED <<note_based_recommender, similarity_recommender>>
            ELSE /\ note_based_recommender' = Ref(n.obj)
                 /\ similarity_recommender' =
                      IF s.raised THEN similarity_recommender ELSE Ref(s.obj)
  /\ UNCHANGED <<db, reader>>
  /\ UNCHANGED engineVars
  /\ UNCHANGED unitVars
  /\ UNCHANGED authVars

\* get_recommenders (lines 70-80): 503 when either global is None, else
\* both references at once
ReaderGet(i) ==
  /\ reader[i].pc = "start"
  /\ reader' =
       [reader EXCEPT ![i] =
          IF ~note_based_recommender.loaded \/ ~similarity_recommender.loaded
            THEN [NoHold EXCEPT !.pc = "unavailable"]
            ELSE [pc |-> "holding", note |-> note_based_recommender,
                  sim |-> similarity_recommender]]
  /\ UNCHANGED <<note_based_recommender, similarity_recommender, db, init_pc,
                 init_rows>>
  /\ UNCHANGED engineVars
  /\ UNCHANGED unitVars
  /\ UNCHANGED authVars

\* the request, after its own awaits, calls get_recommendations on the
\* instance it holds (lines 111, 209) and answers
ReaderUse(i) ==
  /\ reader[i].pc = "holding"
  /\ reader' = [reader EXCEPT ![i].pc = "done"]
  /\ UNCHANGED <<note_based_recommender, similarity_recommender, db, init_pc,
                 init_rows>>
  /\ UNCHANGED engineVars
  /\ UNCHANGED unitVars
  /\ UNCHANGED authVars

\* the task ends; the next request starts
ReaderEnd(i) ==
  /\ reader[i].pc \in {"done", "unavailable"}
  /\ reader' = [reader EXCEPT ![i] = NoHold]
  /\ UNCHANGED <<note_based_recommender, similarity_recommender, db, init_pc,
                 init_rows>>
  /\ UNCHANGED engineVars
  /\ UNCHANGED unitVars
  /\ UNCHANGED authVars

NextReload ==
  \/ DbWrite
  \/ \E i \in InitTasks :
       InitStart(i) \/ InitQueryAnswers(i) \/ InitQueryFails(i)
       \/ InitResume(i)
  \/ \E i \in Readers : ReaderGet(i) \/ ReaderUse(i) \/ ReaderEnd(i)

SpecReload == InitReload /\ [][NextReload]_vars

\* two recommenders built from the same catalog snapshot
SameSnapshot(n, s) ==
  /\ n.loaded = s.loaded
  /\ n.loaded => n.obj.fragrances = s.obj.fragrances

\* C5: in every state, whatever initialisations have run, failed or are under
\* way, the two process-wide recommenders are built from the same catalog
\* snapshot (or are both unloaded), and so is the pair a request holds.
C5_PairFromOneSnapshot ==
  /\ SameSnapshot(note_based_recommender, similarity_recommender)
  /\ \A i \in Readers :
       reader[i].pc \in {"holding", "done"} =>
         /\ reader[i].note.loaded
         /\ SameSnapshot(reader[i].note, reader[i].sim)

\* a request holds the pair of the first snapshot while the globals have
\* been swapped to the pair of the second and an initialisation is under way
C5_Witness ==
  /\ note_based_recommender.loaded
  /\ \E i \in Readers :
       /\ reader[i].pc = "holding"
       /\ reader[i].note # note_based_recommender
       /\ reader[i].sim # similarity_recommender
  /\ \E i \in InitTasks : init_pc[i] = "loaded"

-----------------------------------------------------------------------------
(* Catalog load on its own: rows of every shape handed to a loader *)

\* the shapes a note or accord field comes in
NoteFieldSeq ==
  << RawList(<<RawStr(<<"vanilla">>), RawStr(<<"rose">>)>>),
     RawList(<<RawStr(<<" ", "Rose", " ">>), RawStr(<<" ">>)>>),
     RawList(<<RawNone, RawStr(<<"Cedar">>), RawInt(12), RawStr(<<>>)>>),
     RawStr(<<"Rose", ",", " ", "cedar", " ", ",">>),
     RawStr(<<"rose", ";", "Cedar">>),
     RawStr(<<" ">>),
     RawStr(<<>>),
     RawList(<<>>),
     RawAbsent,
     RawNone,
     RawInt(12),
     RawOther >>

\* the shapes average_rating and total_ratings come in, in pairs
RatingFieldSeq ==
  << <<RawFloat(Pct(450)), RawInt(12)>>,
     <<RawAbsent, RawAbsent>>,
     <<RawStr(<<"4.5">>), RawStr(<<" ", "12">>)>>,
     <<RawInt(12), RawFloat(Pct(450))>>,
     <<RawNone, RawInt(12)>>,
     <<RawFloat(Pct(450)), RawNone>>,
     <<RawStr(<<"n/a">>), RawInt(12)>>,
     <<RawFloat(Pct(450)), RawStr(<<"4.5">>)>> >>

\* which note shape (its top_notes; the other fields take the next shapes)
\* and which rating shapes each row of the pool has
RawRowShapes ==
  << <<1, 1>>, <<2, 2>>, <<3, 3>>, <<4, 4>>, <<5, 1>>, <<6, 2>>, <<7, 3>>,
     <<8, 4>>, <<9, 1>>, <<10, 2>>, <<11, 3>>, <<12, 4>>, <<1, 5>>, <<4, 6>>,
     <<2, 7>>, <<5, 8>> >>

NoteField(i) == NoteFieldSeq[((i - 1) % Len(NoteFieldSeq)) + 1]

RawRow(id, shape) ==
  [id |-> id,
   top_notes |-> NoteField(shape[1]),
   middle_notes |-> NoteField(shape[1] + 1),
   base_notes |-> NoteField(shape[1] + 3),
   main_accords |-> NoteField(shape[1] + 4),
   average_rating |-> RatingFieldSeq[shape[2]][1],
   total_ratings |-> RatingFieldSeq[shape[2]][2]]

\* every list of at most MaxLoadRows rows of the pool, ids distinct
RawCatalogs ==
  UNION { { [i \in 1..n |-> RawRow(Ids[i], RawRowShapes[c[i]])] :
              c \in [1..n -> DOMAIN RawRowShapes] }
          : n \in 0..MaxLoadRows }

InitLoad ==
  /\ EngineIdle /\ ReloadIdle /\ AuthIdle
  /\ raw_rows \in RawCatalogs
  /\ load = NoLoad
  /\ probe = NoProbe

\* cls.from_database_rows(rows), of either recommender: the loop over the
\* rows and the constructor
LoadCatalog ==
  /\ load.pc = "start"
  /\ \E cls \in {"NoteBasedRecommender", "SimilarityRecommender"} :
       LET l == LoadRows(raw_rows, <<>>)
           r == IF cls = "NoteBasedRecommender"
                  THEN Nb_from_database_rows(raw_rows)
                  ELSE Sim_from_database_rows(raw_rows)
       IN load' = [pc |-> "done", cls |-> cls, raised |-> r.raised,
                   fragrances |-> IF r.raised THEN <<>> ELSE l.fragrances]
  /\ UNCHANGED <<raw_rows, probe>>
  /\ UNCHANGED engineVars
  /\ UNCHANGED reloadVars
  /\ UNCHANGED authVars

\* the caller drops what was built and loads the rows again
LoadAgain ==
  /\ load.pc = "done"
  /\ load' = NoLoad
  /\ UNCHANGED <<raw_rows, probe>>
  /\ UNCHANGED engineVars
  /\ UNCHANGED reloadVars
  /\ UNCHANGED authVars

NextLoad == LoadCatalog \/ LoadAgain

SpecLoad == InitLoad /\ [][NextLoad]_vars

-----------------------------------------------------------------------------
(* _calculate_note_preference_match called on its own: two candidates that  *)
(* differ in one note, under an index whose frequencies are given           *)

\* the global frequencies of the two notes a candidate may match
FrequencyPool == {1, 2, 5, 20, 63, 100, 500, 1000}

\* the arguments: both notes preferred at one importance, alone or beside a
\* third preference no candidate matches
InitRarity ==
  /\ EngineIdle /\ ReloadIdle /\ AuthIdle
  /\ raw_rows = <<>> /\ load = NoLoad
  /\ \E fa \in FrequencyPool, fb \in FrequencyPool,
        importance \in {1, 5, 10},
        others \in { <<>>, <<[name |-> "cedar", importance |-> 1]>>,
                     <<[name |-> "cedar", importance |-> 10]>> } :
       probe = [pc |-> "called",
                note_frequencies |->
                  CounterAdd(CounterAdd(EmptyCounter, "vanilla", fa),
                             "rose", fb),
                prefs |-> <<[name |-> "Vanilla", importance |-> importance],
                            [name |-> "rose", importance |-> importance]>>
                          \o others,
                match_a |-> -1, match_b |-> -1]

\* self._calculate_note_preference_match(fragrance_notes, prefs) for the
\* candidate holding the first note
MatchCandidateA ==
  /\ probe.pc = "called" /\ probe.match_a = -1
  /\ probe' = [probe EXCEPT !.match_a =
                 Nb_calculate_note_preference_match(probe, <<"vanilla", "musk">>,
                                                    probe.prefs)]
  /\ UNCHANGED <<raw_rows, load>>
  /\ UNCHANGED engineVars
  /\ UNCHANGED reloadVars
  /\ UNCHANGED authVars

\* the same call for the candidate holding the second note, its other notes
\* the same
MatchCandidateB ==
  /\ probe.pc = "called" /\ probe.match_b = -1
  /\ probe' = [probe EXCEPT !.match_b =
                 Nb_calculate_note_preference_match(probe, <<"rose", "musk">>,
                                                    probe.prefs)]
  /\ UNCHANGED <<raw_rows, load>>
  /\ UNCHANGED engineVars
  /\ UNCHANGED reloadVars
  /\ UNCHANGED authVars

NextRarity == MatchCandidateA \/ MatchCandidateB

SpecRarity == InitRarity /\ [][NextRarity]_vars

-----------------------------------------------------------------------------
(* _calculate_diversity_bonus and _calculate_quality_score called on their  *)
(* own, each on two argument lists that are then compared                   *)

InitProbe ==
  /\ EngineIdle /\ ReloadIdle /\ AuthIdle
  /\ raw_rows = <<>> /\ load = NoLoad
  /\ \/ \E accords \in [1..2 -> { <<>>, <<"woody">>, <<"woody", "fresh">>,
                                  <<"woody", "fresh", "sweet", "green">> }],
           avg_rating \in [1..2 -> {0, 5 * Scale}],
           size \in 1..2,
           candidate_accords \in [1..2 -> { <<>>, <<"Woody">>, <<"fresh">>,
                                            <<"oud">>, <<"woody", "oud">>,
                                            <<"oud", "musky">> }] :
          probe =
            [pc |-> "diversity",
             target_fragrances |->
               [i \in 1..size |->
                  Fragrance(Ids[i],
                            [top_notes |-> <<>>, middle_notes |-> <<>>,
                             base_notes |-> <<>>, accords |-> accords[i],
                             avg_rating |-> avg_rating[i],
                             num_ratings |-> 20])],
             candidates |->
               [i \in 1..2 |->
                  Fragrance(Ids[2 + i],
                            [top_notes |-> <<>>, middle_notes |-> <<>>,
                             base_notes |-> <<>>,
                             accords |-> candidate_accords[i],
                             avg_rating |-> 4 * Scale, num_ratings |-> 20])],
             value |-> <<-1, -1>>]
     \/ \E avg_rating \in [1..2 -> { 0, Pct(100), Pct(250), Pct(260),
                                     Pct(300), Pct(420), Pct(500) }],
           num_ratings \in [1..2 -> { 0, 1, 2, 5, 20, 100, 500, 1000 }] :
          probe = [pc |-> "quality", avg_rating |-> avg_rating,
                   num_ratings |-> num_ratings, value |-> <<-1, -1>>]

\* self._calculate_diversity_bonus(candidate, collection_profile,
\* target_fragrances), the profile that of the targets, for either candidate
DiversityBonus ==
  /\ probe.pc = "diversity"
  /\ \E i \in 1..2 :
       /\ probe.value[i] = -1
       /\ probe' =
            [probe EXCEPT !.value[i] =
               Sim_calculate_diversity_bonus(
                 probe.candidates[i],
                 Sim_create_collection_profile(probe.target_fragrances),
                 probe.target_fragrances)]
  /\ UNCHANGED <<raw_rows, load>>
  /\ UNCHANGED engineVars
  /\ UNCHANGED reloadVars
  /\ UNCHANGED authVars

\* self._calculate_quality_score(avg_rating, num_ratings), for either pair
QualityScore ==
  /\ probe.pc = "quality"
  /\ \E i \in 1..2 :
       /\ probe.value[i] = -1
       /\ probe' =
            [probe EXCEPT !.value[i] =
               Nb_calculate_quality_score(probe.avg_rating[i],
                                          probe.num_ratings[i])]
  /\ UNCHANGED <<raw_rows, load>>
  /\ UNCHANGED engineVars
  /\ UNCHANGED reloadVars
  /\ UNCHANGED authVars

NextProbe == DiversityBonus \/ QualityScore

SpecProbe == InitProbe /\ [][NextProbe]_vars

-----------------------------------------------------------------------------
(* The engine: one catalog, both recommenders built from it, calls on them *)


Init ==
  /\ catalog \in Catalogs
  /\ nb = Nb_init(catalog)
  /\ sim = Sim_init(catalog)
  /\ pc = "idle"
  /\ req = NoReq
  /\ outcome = NoOutcome
  /\ prev = NoCall
  /\ ReloadIdle
  /\ AuthIdle
  /\ UnitIdle

\* NoteBasedRecommender.get_recommendations(preferred_notes,
\* preferred_accords, limit)
NoteRecommend ==
  /\ pc = "idle" /\ prev = NoCall
  /\ \E pn \in NotePrefArgs, pa \in AccordPrefArgs, limit \in Limits :
       LET r == [kind |-> "preference", preferred_notes |-> pn,
                 preferred_accords |-> pa, limit |-> limit]
       IN /\ req' = r
          /\ outcome' = NoteCall(nb, r)
          /\ nb' = Nb_after_call(nb, OrEmpty(pn), OrEmpty(pa))
  /\ pc' = "returned"
  /\ UNCHANGED <<catalog, sim, prev>>
  /\ UNCHANGED reloadVars
  /\ UNCHANGED authVars
  /\ UNCHANGED unitVars

\* SimilarityRecommender.get_recommendations(target_fragrance_ids, limit)
SimRecommend ==
  /\ pc = "idle" /\ prev = NoCall
  /\ \E t \in TargetArgs(catalog), limit \in Limits :
       LET r == [kind |-> "similarity", target_fragrance_ids |-> t,
                 limit |-> limit]
       IN /\ req' = r
          /\ outcome' = SimCall(sim, r)
          /\ sim' = Sim_after_call(sim, t)
  /\ pc' = "returned"
  /\ UNCHANGED <<catalog, nb, prev>>
  /\ UNCHANGED reloadVars
  /\ UNCHANGED authVars
  /\ UNCHANGED unitVars

\* the caller takes the result and goes on
Return ==
  /\ pc = "returned"
  /\ pc' = "idle"
  /\ req' = NoReq /\ outcome' = NoOutcome /\ prev' = NoCall
  /\ UNCHANGED <<catalog, nb, sim>>
  /\ UNCHANGED reloadVars
  /\ UNCHANGED authVars
  /\ UNCHANGED unitVars

\* the caller takes the result and keeps it to repeat the call
ReturnAndKeep ==
  /\ pc = "returned" /\ prev = NoCall
  /\ pc' = "idle"
  /\ prev' = [req |-> req, outcome |-> outcome]
  /\ req' = NoReq /\ outcome' = NoOutcome
  /\ UNCHANGED <<catalog, nb, sim>>
  /\ UNCHANGED reloadVars
  /\ UNCHANGED authVars
  /\ UNCHANGED unitVars

\* the same call again, on the same instances, with the same input
Repeat ==
  /\ pc = "idle" /\ prev # NoCall
  /\ req' = prev.req
  /\ outcome' = Call(prev.req)
  /\ nb' = IF prev.req.kind = "preference"
             THEN Nb_after_call(nb, OrEmpty(prev.req.preferred_notes),
                                OrEmpty(prev.req.preferred_accords))
             ELSE nb
  /\ sim' = IF prev.req.kind = "similarity"
              THEN Sim_after_call(sim, prev.req.target_fragrance_ids)
              ELSE sim
  /\ pc' = "returned"
  /\ UNCHANGED <<catalog, prev>>
  /\ UNCHANGED reloadVars
  /\ UNCHANGED authVars
  /\ UNCHANGED unitVars

Next == NoteRecommend \/ SimRecommend \/ Return \/ ReturnAndKeep \/ Repeat

Spec == Init /\ [][Next]_vars

-----------------------------------------------------------------------------
(* Preference calls on a catalog whose fragrances are rated alike *)

\* the catalogs of at most MaxRows records that share the avg_rating and
\* num_ratings of one template (a rated one, or the unrated one)
EqualCatalogs ==
  UNION { { [i \in 1..n |->
               Fragrance(Ids[i],
                         [c[i] EXCEPT !.avg_rating = r.avg_rating,
                                      !.num_ratings = r.num_ratings])] :
              c \in [1..n -> Templates] } :
          n \in 0..MaxRows, r \in {TemplateSeq[1], TemplateSeq[3]} }

InitEqual ==
  /\ catalog \in EqualCatalogs
  /\ nb = Nb_init(catalog)
  /\ sim = Sim_init(catalog)
  /\ pc = "idle"
  /\ req = NoReq
  /\ outcome = NoOutcome
  /\ prev = NoCall
  /\ ReloadIdle
  /\ AuthIdle
  /\ UnitIdle

NextEqual == NoteRecommend \/ Return

SpecEqual == InitEqual /\ [][NextEqual]_vars

-----------------------------------------------------------------------------
(* Tokens, the Redis blacklist, the login rate limit and the account lock *)

\* config.py: access_token_expire_minutes, its default
ACCESS_TOKEN_EXPIRE_MINUTES == 30
\* check_login_rate_limit: limit=5, window=900
LoginLimit == 5
LoginWindow == 900

MaxAllowed == 6   \* allowed attempts the log keeps while they share a window

\* the seconds at which calls are made
Instants == {0, 1, 2, 3, 4, 5, 1800}

\* jwt.decode with verify_exp (python-jose): ExpiredSignatureError when the
\* exp claim, a whole second, is below the current whole second
JwtExpired(exp) == exp < now

\* RedisService.blacklist_token: SETEX blacklist:{jti} expires_in; True when
\* the command succeeded, False when it raised
Redis_blacklist_token(expires_in) ==
  IF redis_connected
    THEN [result |-> TRUE,
          redis |-> [redis EXCEPT !.blacklist = now + expires_in]]
    ELSE [result |-> FALSE, redis |-> redis]

\* RedisService.is_token_blacklisted: GET blacklist:{jti} is not None, and
\* False when the command raised.  The key lives expires_in seconds from the
\* instant of the SETEX, which lies up to a second after the whole second
\* blacklist_token subtracted, so in the second it runs out a GET may find
\* it or not.
Redis_is_token_blacklisted ==
  IF ~redis_connected THEN {FALSE}
  ELSE IF redis.blacklist = -1 \/ now > redis.blacklist THEN {FALSE}
  ELSE IF now < redis.blacklist THEN {TRUE}
  ELSE {TRUE, FALSE}

\* RedisService.check_rate_limit: one MULTI/EXEC pipeline that removes the
\* members scored up to current_time - window, counts the rest, adds the
\* member str(current_time) with score current_time and renews the key's
\* expiry (every member is scored at most the second of the last call, so the
\* key running out removes nothing ZREMRANGEBYSCORE would leave); allowed
\* when the count before the add is below limit, and when a command raised
RedisService_check_rate_limit(limit, window) ==
  IF redis_connected
    THEN LET current_time == now
             kept == { s \in redis.attempts : s > current_time - window }
             current_requests == Cardinality(kept)
         IN [allowed |-> ~(current_requests >= limit),
             attempts |-> kept \cup {current_time}]
    ELSE [allowed |-> TRUE, attempts |-> redis.attempts]

\* security.check_login_rate_limit
check_login_rate_limit == RedisService_check_rate_limit(LoginLimit, LoginWindow)

\* User.is_account_locked
is_account_locked(u) == u.failed_login_attempts >= 5

\* User.reset_failed_attempts
reset_failed_attempts(u) == [u EXCEPT !.failed_login_attempts = 0]

\* the calls reported allowed that can still share a window with one made now
Recent(log) == SelectSeq(log, LAMBDA s : s > now - LoginWindow)

\* time passes
Tick ==
  /\ \E t \in Instants : t > now /\ now' = t
  /\ UNCHANGED <<redis_connected, redis, token, user, response, allowed,
                 logged_out>>
  /\ UNCHANGED engineVars
  /\ UNCHANGED reloadVars
  /\ UNCHANGED unitVars

\* the connection to Redis is lost or comes back
RedisFault ==
  /\ redis_connected' = ~redis_connected
  /\ UNCHANGED <<now, redis, token, user, response, allowed, logged_out>>
  /\ UNCHANGED engineVars
  /\ UNCHANGED reloadVars
  /\ UNCHANGED unitVars

\* security.create_access_token(data) with the default lifetime
create_access_token ==
  /\ token = NoToken
  /\ token' = [exp |-> now + ACCESS_TOKEN_EXPIRE_MINUTES * 60]
  /\ response' = [op |-> "create_access_token", result |-> "token"]
  /\ UNCHANGED <<now, redis_connected, redis, user, allowed, logged_out>>
  /\ UNCHANGED engineVars
  /\ UNCHANGED reloadVars
  /\ UNCHANGED unitVars

\* security.blacklist_token(token)
blacklist_token ==
  /\ token # NoToken
  /\ LET exp == token.exp
         remaining_seconds == exp - now
         stored == IF remaining_seconds > 0
                     THEN Redis_blacklist_token(remaining_seconds)
                     ELSE [result |-> FALSE, redis |-> redis]
     IN /\ redis' = stored.redis
        /\ response' = [op |-> "blacklist_token",
                        result |-> IF stored.result THEN "True" ELSE "False"]
        /\ logged_out' = (logged_out \/ stored.result)
  /\ UNCHANGED <<now, redis_connected, token, user, allowed>>
  /\ UNCHANGED engineVars
  /\ UNCHANGED reloadVars
  /\ UNCHANGED unitVars

\* security.verify_token(token, "access")
verify_token ==
  /\ token # NoToken
  /\ \E is_blacklisted \in Redis_is_token_blacklisted :
       response' = [op |-> "verify_token",
                    result |-> IF JwtExpired(token.exp) THEN "None"
                               ELSE IF is_blacklisted THEN "None"
                               ELSE "payload"]
  /\ UNCHANGED <<now, redis_connected, redis, token, user, allowed,
                 logged_out>>
  /\ UNCHANGED engineVars
  /\ UNCHANGED reloadVars
  /\ UNCHANGED unitVars

InitToken == EngineIdle /\ ReloadIdle /\ UnitIdle /\ AuthIdle

NextToken ==
  Tick \/ RedisFault \/ create_access_token \/ blacklist_token \/ verify_token

SpecToken == InitToken /\ [][NextToken]_vars

\* auth.login_user for one client address and the e-mail of the one account
\* (or an e-mail no account has), with the right or a wrong password
login_user(email_known, password_ok) ==
  /\ LET rate_limit == check_login_rate_limit
     IN /\ redis' = [redis EXCEPT !.attempts = rate_limit.attempts]
        /\ allowed' = IF rate_limit.allowed /\ Len(Recent(allowed)) < MaxAllowed
                        THEN Append(Recent(allowed), now)
                        ELSE Recent(allowed)
        /\ IF ~rate_limit.allowed
             THEN /\ response' = [op |-> "login_user", result |-> "429"]
                  /\ user' = user
           ELSE IF ~email_known
             THEN /\ response' = [op |-> "login_user", result |-> "401"]
                  /\ user' = user
           ELSE IF is_account_locked(user)
             THEN /\ response' = [op |-> "login_user", result |-> "423"]
                  /\ user' = user
           ELSE IF ~password_ok
             THEN /\ response' = [op |-> "login_user", result |-> "401"]
                  /\ user' = [user EXCEPT !.failed_login_attempts = @ + 1]
           ELSE /\ response' = [op |-> "login_user", result |-> "200"]
                /\ user' = reset_failed_attempts(user)
  /\ UNCHANGED <<now, redis_connected, token, logged_out>>
  /\ UNCHANGED engineVars
  /\ UNCHANGED reloadVars
  /\ UNCHANGED unitVars

Login == \E email_known \in BOOLEAN, password_ok \in BOOLEAN :
           login_user(email_known, password_ok)

InitLogin == EngineIdle /\ ReloadIdle /\ UnitIdle /\ AuthIdle

NextLogin == Tick \/ RedisFault \/ Login

SpecLogin == InitLogin /\ [][NextLogin]_vars

\* the same with time passing and the owner of the account trying the right
\* password again and again
SpecLoginFair ==
  /\ InitLogin /\ [][NextLogin]_vars
  /\ WF_vars(Tick)
  /\ WF_vars(login_user(TRUE, TRUE))

-----------------------------------------------------------------------------
(* Properties of the engine *)

Returned == pc = "returned"
Succeeded == Returned /\ outcome.error = ""
IsSimilarity == Returned /\ req.kind = "similarity"
IsPreference == Returned /\ req.kind = "preference"
TargetIds == Range(Sim_target_ids(req.target_fragrance_ids))
CatalogIds == { catalog[i].id : i \in DOMAIN catalog }
ResultIds(result) == { result[i].fragrance.id : i \in DOMAIN result }
Unit == 0..Scale

\* C1: every returned result's score and every component of its explanation
\* lies in [0, 1], for preference, single-target and collection requests.
C1_ScoresInUnitInterval ==
  Returned =>
    \A i \in DOMAIN outcome.result :
      /\ outcome.result[i].score \in Unit
      /\ \A k \in DOMAIN outcome.result[i].explanation :
           outcome.result[i].explanation[k] \in Unit

\* a collection call returned a candidate one of whose components is 1.0
C1_Witness ==
  /\ Succeeded /\ outcome.mode = "collection"
  /\ \E i \in DOMAIN outcome.result :
       /\ outcome.result[i].explanation.popularity_score = Scale
       /\ outcome.result[i].explanation.diversity_bonus > 0
       /\ outcome.result[i].score > 0

\* C2: no fragrance whose id is a target id is in the result of a similarity
\* call, and every other fragrance of the catalog is a candidate: as many
\* candidates are scored as there are other fragrances, and a call whose
\* limit does not cut returns exactly the other fragrances.
C2_TargetsExcluded ==
  (IsSimilarity /\ outcome.error = "") =>
    /\ ResultIds(outcome.result) \cap TargetIds = {}
    /\ ResultIds(outcome.result) \subseteq CatalogIds
    /\ outcome.scored = Cardinality(CatalogIds \ TargetIds)
    /\ req.limit >= outcome.scored =>
         ResultIds(outcome.result) = CatalogIds \ TargetIds

\* a collection call whose list names the same id twice returned results
C2_Witness ==
  /\ IsSimilarity /\ outcome.error = ""
  /\ req.target_fragrance_ids.type = "list"
  /\ Len(req.target_fragrance_ids.value) = 2
  /\ req.target_fragrance_ids.value[1] = req.target_fragrance_ids.value[2]
  /\ Len(outcome.result) >= 2

\* C3: a similarity call one of whose target ids is not in the catalog, at
\* any position, raises "Fragrance <id> not found" for an id that is missing,
\* returns nothing and has scored no candidate.
C3_MissingTargetNotFound ==
  (IsSimilarity /\ ~(TargetIds \subseteq CatalogIds)) =>
    /\ outcome.error = "NotFound"
    /\ outcome.missing \in TargetIds \ CatalogIds
    /\ outcome.result = <<>>
    /\ outcome.scored = 0

\* the missing id is second in the list, after an id the catalog holds
C3_Witness ==
  /\ IsSimilarity
  /\ req.target_fragrance_ids.type = "list"
  /\ Len(req.target_fragrance_ids.value) = 2
  /\ req.target_fragrance_ids.value[1] \in CatalogIds
  /\ req.target_fragrance_ids.value[2] = MissingId
  /\ outcome.error = "NotFound"

\* C4: a preference call raises exactly when both lists are empty or left
\* out; with either list non-empty it returns a list and does not fail.
C4_InvalidRequestIffBothEmpty ==
  IsPreference =>
    LET both_empty == ~Truthy(req.preferred_notes)
                      /\ ~Truthy(req.preferred_accords)
    IN /\ both_empty => (outcome.error = "InvalidRequest"
                         /\ outcome.result = <<>>)
       /\ ~both_empty => (outcome.error = ""
                          /\ Len(outcome.result)
                               = Min(req.limit, Len(catalog)))

\* notes left out, accords given: the call returned a ranked list
C4_Witness ==
  /\ IsPreference
  /\ ~req.preferred_notes.given
  /\ Truthy(req.preferred_accords)
  /\ outcome.error = ""
  /\ Len(outcome.result) >= 2

\* C6: a call, failed or not, leaves the index of both recommenders as the
\* constructor made it, so a call after any calls returns what it returns
\* on a freshly constructed instance.
C6_IndexUnchanged ==
  /\ nb = Nb_init(catalog)
  /\ sim = Sim_init(catalog)
  /\ Returned =>
       outcome = IF req.kind = "preference"
                   THEN NoteCall(Nb_init(catalog), req)
                   ELSE SimCall(Sim_init(catalog), req)

\* a second, successful collection call after a first call
C6_Witness ==
  /\ Succeeded /\ prev # NoCall
  /\ outcome.mode = "collection"
  /\ outcome.result # <<>>

\* C7: the scores of a returned list never increase from one entry to the
\* next.
C7_ScoresNonIncreasing ==
  Returned =>
    \A i \in DOMAIN outcome.result :
      i < Len(outcome.result) =>
        outcome.result[i].score >= outcome.result[i + 1].score

\* a list of three whose scores strictly fall
C7_Witness ==
  /\ Succeeded
  /\ Len(outcome.result) = 3
  /\ outcome.result[1].score > outcome.result[2].score
  /\ outcome.result[2].score > outcome.result[3].score

\* the first k entries of a list
Prefix(list, k) == SubSeq(list, 1, Min(k, Len(list)))

\* C8: the limit only cuts the sorted list: the result for limit k is the
\* first k entries of the list the same request returns uncut, hence of the
\* result for any limit k' >= k, and it has min(limit, candidates scored)
\* entries.
C8_LimitOnlyTruncates ==
  Succeeded =>
    /\ Len(outcome.result) = Min(req.limit, outcome.scored)
    /\ outcome.result
         = Prefix(Call([req EXCEPT !.limit = Len(catalog)]).result, req.limit)

\* a cut list whose first entry is not the first fragrance of the catalog
C8_Witness ==
  /\ Succeeded
  /\ req.limit = 2 /\ outcome.scored = 3
  /\ outcome.result[1].fragrance.id # catalog[1].id
  /\ outcome.result[1].score > outcome.result[2].score

SingleWeightSum(self) ==
  self.NOTE_WEIGHT + self.ACCORD_WEIGHT + self.QUALITY_WEIGHT
  + self.POPULARITY_WEIGHT

\* C10: the four weights of single-target mode sum to exactly 1.0.
C10_SingleWeightsSumToOne == SingleWeightSum(sim) = Scale

\* C10, with the sum the code has: the four weights of single-target mode
\* sum to 0.98 (the weight that brings the sum to 1.0 is DIVERSITY_WEIGHT,
\* which single-target mode does not apply), so no single-target score
\* exceeds 0.98.
C10_SingleWeightsSum098 ==
  /\ SingleWeightSum(sim) = Pct(98)
  /\ SingleWeightSum(sim) + sim.DIVERSITY_WEIGHT = Scale
  /\ (Succeeded /\ outcome.mode = "single") =>
       \A i \in DOMAIN outcome.result : outcome.result[i].score <= Pct(98)

\* a single-target call returned scored candidates
C10_Witness ==
  /\ Succeeded /\ outcome.mode = "single"
  /\ \E i \in DOMAIN outcome.result :
       /\ outcome.result[i].explanation.note_similarity > 0
       /\ outcome.result[i].explanation.accord_similarity > 0

\* the sum of the weights the preference score applies
PreferenceWeightSum(self) ==
  self.NOTE_PREFERENCE_WEIGHT + self.ACCORD_PREFERENCE_WEIGHT
  + self.QUALITY_WEIGHT + self.POPULARITY_WEIGHT

\* C11: the four weights of preference mode sum to 1.0, the five weights of
\* collection mode sum to 1.0, and in both recommenders the note weight is
\* greater than the accord weight.
C11_ModeWeightsSumToOne ==
  /\ PreferenceWeightSum(nb) = Scale
  /\ SingleWeightSum(sim) + sim.DIVERSITY_WEIGHT = Scale
  /\ nb.NOTE_PREFERENCE_WEIGHT > nb.ACCORD_PREFERENCE_WEIGHT
  /\ sim.NOTE_WEIGHT > sim.ACCORD_WEIGHT

\* a preference call returned a candidate all four of whose components count
C11_Witness ==
  /\ Succeeded /\ IsPreference
  /\ \E i \in DOMAIN outcome.result :
       /\ outcome.result[i].explanation.note_preference_match > 0
       /\ outcome.result[i].explanation.accord_preference_match > 0
       /\ outcome.result[i].explanation.quality_score > 0
       /\ outcome.result[i].explanation.popularity_score > 0

\* C12: a similarity call with exactly one target id, bare or in a list, is
\* scored in single-target mode and no explanation has a diversity_bonus; a
\* call with two or more is scored in collection mode and every explanation
\* has one; the analysis_type of the response is the mode the engine used.
C12_ModeFromTargetCount ==
  (IsSimilarity /\ outcome.error = "") =>
    LET n == Len(Sim_target_ids(req.target_fragrance_ids))
    IN /\ n = 1 =>
            /\ outcome.mode = "single"
            /\ \A i \in DOMAIN outcome.result :
                 "diversity_bonus" \notin DOMAIN outcome.result[i].explanation
       /\ n >= 2 =>
            /\ outcome.mode = "collection"
            /\ \A i \in DOMAIN outcome.result :
                 "diversity_bonus" \in DOMAIN outcome.result[i].explanation
       /\ n >= 1 => Api_analysis_type(req.target_fragrance_ids) = outcome.mode

\* a list naming the same id twice was scored in collection mode
C12_Witness ==
  /\ IsSimilarity /\ outcome.error = ""
  /\ req.target_fragrance_ids.type = "list"
  /\ Len(req.target_fragrance_ids.value) = 2
  /\ Cardinality(Range(req.target_fragrance_ids.value)) = 1
  /\ outcome.mode = "collection"
  /\ outcome.result # <<>>

\* the weighted components of a mode, each with the weight the mode applies
ModeWeights(mode) ==
  CASE mode = "preference" ->
         [note_preference_match |-> nb.NOTE_PREFERENCE_WEIGHT,
          accord_preference_match |-> nb.ACCORD_PREFERENCE_WEIGHT,
          quality_score |-> nb.QUALITY_WEIGHT,
          popularity_score |-> nb.POPULARITY_WEIGHT]
    [] mode = "single" ->
         [note_similarity |-> sim.NOTE_WEIGHT,
          accord_similarity |-> sim.ACCORD_WEIGHT,
          quality_score |-> sim.QUALITY_WEIGHT,
          popularity_score |-> sim.POPULARITY_WEIGHT]
    [] mode = "collection" ->
         [note_similarity |-> sim.NOTE_WEIGHT,
          accord_similarity |-> sim.ACCORD_WEIGHT,
          quality_score |-> sim.QUALITY_WEIGHT,
          popularity_score |-> sim.POPULARITY_WEIGHT,
          diversity_bonus |-> sim.DIVERSITY_WEIGHT]

\* C13: every explanation has one entry per weighted component of the mode
\* used and a final_score entry; final_score is the result's score, and the
\* score is the sum of the components, each times its weight.
C13_ExplanationAccountsForScore ==
  Succeeded =>
    LET w == ModeWeights(outcome.mode)
    IN \A i \in DOMAIN outcome.result :
         LET e == outcome.result[i].explanation
         IN /\ DOMAIN e = DOMAIN w \cup {"final_score"}
            /\ e.final_score = outcome.result[i].score
            /\ outcome.result[i].score
                 = SumOver(DOMAIN w, [k \in DOMAIN w |-> e[k] * w[k]])
                     \div Scale

\* a collection call returned a candidate with a diversity bonus that counts
C13_Witness ==
  /\ Succeeded /\ outcome.mode = "collection"
  /\ \E i \in DOMAIN outcome.result :
       /\ outcome.result[i].explanation.diversity_bonus > 0
       /\ outcome.result[i].explanation.note_similarity > 0
       /\ outcome.result[i].score > 0

\* a request the recommenders accept: a preference request with at least
\* one preference, a similarity request with at least one target id
ValidRequest ==
  \/ IsPreference
     /\ (Truthy(req.preferred_notes) \/ Truthy(req.preferred_accords))
  \/ IsSimilarity /\ Len(Sim_target_ids(req.target_fragrance_ids)) >= 1

\* C14: on an empty catalog max_ratings is 1 and every valid request returns
\* an empty list instead of failing.
C14_EmptyCatalogReturnsEmpty ==
  catalog = <<>> =>
    /\ nb.max_ratings = 1 /\ sim.max_ratings = 1
    /\ ValidRequest => (outcome.error = "" /\ outcome.result = <<>>)

\* C14, with what a similarity request gets: on an empty catalog max_ratings
\* is 1, every preference request with at least one preference returns an
\* empty list, and every similarity request with at least one target id
\* raises "Fragrance <id> not found" for its first id, the catalog holding
\* none.
C14_EmptyCatalogPreferenceReturnsEmpty ==
  catalog = <<>> =>
    /\ nb.max_ratings = 1 /\ sim.max_ratings = 1
    /\ (ValidRequest /\ IsPreference) =>
         (outcome.error = "" /\ outcome.result = <<>> /\ outcome.scored = 0)
    /\ (ValidRequest /\ IsSimilarity) =>
         /\ outcome.error = "NotFound"
         /\ outcome.missing = Sim_target_ids(req.target_fragrance_ids)[1]
         /\ outcome.result = <<>>

\* a preference call with a preference on the empty catalog returned
C14_Witness ==
  /\ catalog = <<>>
  /\ IsPreference /\ Truthy(req.preferred_notes)
  /\ req.limit > 0
  /\ outcome.error = ""

Loaded == load.pc = "done" /\ ~load.raised

\* the note and accord fields: the key of the row and the field of the record
NoteFieldNames ==
  { <<"top_notes", "top_notes">>, <<"middle_notes", "middle_notes">>,
    <<"base_notes", "base_notes">>, <<"main_accords", "accords">> }

\* a value float() / int() reads a number from
NumericValue(v) ==
  \/ v.kind \in {"int", "float"}
  \/ v.kind = "str" /\ Len(StrStrip(v.s)) = 1
     /\ NumeralOf(StrStrip(v.s)[1]) # {}

\* C15: the load never fails on a rating or count field: it completes for
\* every list of rows, and a record whose average_rating or total_ratings is
\* missing, null or not numeric has avg_rating 0.0 or num_ratings 0.
C15_LoadCoercesRatings ==
  load.pc = "done" =>
    /\ ~load.raised
    /\ Len(load.fragrances) = Len(raw_rows)
    /\ \A i \in DOMAIN load.fragrances :
         /\ ~NumericValue(raw_rows[i].average_rating) =>
              load.fragrances[i].avg_rating = 0
         /\ ~NumericValue(raw_rows[i].total_ratings) =>
              load.fragrances[i].num_ratings = 0

\* a stored note: not empty, no blank at either end, lowercase
NormalisedNote(note) ==
  note # <<>> /\ StrStrip(note) = note /\ StrLower(note) = note

\* C16: after a load, whatever shape each note or accord field of a row came
\* in, every stored note and accord is non-empty, lowercase and trimmed; a
\* field that is neither a list nor a string is stored as the empty list;
\* notes is top_notes, then middle_notes, then base_notes; and normalising a
\* stored list again returns it unchanged.
C16_NotesNormalised ==
  Loaded =>
    \A i \in DOMAIN load.fragrances :
      LET f == load.fragrances[i]
      IN /\ f.notes = f.top_notes \o f.middle_notes \o f.base_notes
         /\ \A fn \in NoteFieldNames :
              LET field == raw_rows[i][fn[1]]
                  stored == f[fn[2]]
              IN /\ \A j \in DOMAIN stored : NormalisedNote(stored[j])
                 /\ field.kind \notin {"list", "str"} => stored = <<>>
                 /\ clean_note_list(
                      RawList([j \in DOMAIN stored |-> RawStr(stored[j])]))
                    = stored

\* rows were loaded that hold a comma-delimited string with blanks, a list
\* with elements to drop and a field that is neither a list nor a string
C16_Witness ==
  /\ Loaded
  /\ \E i \in DOMAIN load.fragrances :
       /\ raw_rows[i].top_notes.kind = "str"
       /\ Len(load.fragrances[i].top_notes) = 2
  /\ \E i \in DOMAIN load.fragrances, fn \in NoteFieldNames :
       /\ raw_rows[i][fn[1]].kind = "list"
       /\ load.fragrances[i][fn[2]] # <<>>
       /\ Len(load.fragrances[i][fn[2]]) < Len(raw_rows[i][fn[1]].items)
  /\ \E i \in DOMAIN load.fragrances, fn \in NoteFieldNames :
       raw_rows[i][fn[1]].kind \in {"int", "other"}

\* the items of a delimited string, "," and ";" both delimiting
RECURSIVE StrSplitEither(_, _)
StrSplitEither(s, cur) ==
  IF s = <<>> THEN <<cur>>
  ELSE IF Head(s) \in {",", ";"}
         THEN <<cur>> \o StrSplitEither(Tail(s), <<>>)
         ELSE StrSplitEither(Tail(s), Append(cur, Head(s)))

\* one normalised entry per delimited item that is not blank
DelimitedNotes(s) ==
  LET parts == StrSplitEither(s, <<>>)
      kept == SelectSeqBy(parts,
                [i \in DOMAIN parts |-> StrStrip(parts[i]) # <<>>])
  IN [i \in DOMAIN kept |-> StrLower(StrStrip(kept[i]))]

\* C17: a field given as a delimited string is stored as one normalised
\* entry per item, for the semicolon as for the comma.
C17_BothDelimitersSplit ==
  Loaded =>
    \A i \in DOMAIN load.fragrances :
      \A fn \in NoteFieldNames :
        raw_rows[i][fn[1]].kind = "str" =>
          load.fragrances[i][fn[2]] = DelimitedNotes(raw_rows[i][fn[1]].s)

\* the number of catalog records whose field (notes or accords) holds name
RecordsHolding(field, name) ==
  Cardinality({ i \in DOMAIN catalog : name \in LowerSet(catalog[i][field]) })

\* the names some catalog record holds in a field
NamesHeld(field) ==
  UNION { LowerSet(catalog[i][field]) : i \in DOMAIN catalog }

\* C18: in both recommenders the frequency of a note is the number of
\* catalog records whose notes contain it, a record that lists the note in
\* several positions counting once, and the frequency of an accord is the
\* number of records that contain the accord
C18_FrequencyCountsRecords ==
  /\ DOMAIN nb.note_frequencies = NamesHeld("notes")
  /\ DOMAIN sim.note_frequencies = NamesHeld("notes")
  /\ DOMAIN nb.accord_frequencies = NamesHeld("accords")
  /\ DOMAIN sim.accord_frequencies = NamesHeld("accords")
  /\ \A n \in NamesHeld("notes") :
       /\ nb.note_frequencies[n] = RecordsHolding("notes", n)
       /\ sim.note_frequencies[n] = RecordsHolding("notes", n)
  /\ \A a \in NamesHeld("accords") :
       /\ nb.accord_frequencies[a] = RecordsHolding("accords", a)
       /\ sim.accord_frequencies[a] = RecordsHolding("accords", a)

\* C19: with two notes preferred at equal importance, the candidate matching
\* only the note of lower global frequency gets a strictly higher
\* note-preference match than the same candidate matching only the other
C19_RarerNoteMatchesHigher ==
  (probe.pc = "called" /\ probe.match_a >= 0 /\ probe.match_b >= 0)
    => /\ probe.note_frequencies["vanilla"] < probe.note_frequencies["rose"]
            => probe.match_a > probe.match_b
       /\ probe.note_frequencies["vanilla"] > probe.note_frequencies["rose"]
            => probe.match_a < probe.match_b

\* both candidates were matched with frequencies 5 and 500
C19_Witness ==
  /\ probe.pc = "called"
  /\ probe.note_frequencies = CounterAdd(CounterAdd(EmptyCounter, "vanilla", 5),
                                         "rose", 500)
  /\ probe.match_a > probe.match_b
  /\ probe.match_b > 0

\* the notes a preference request declares, and whether a fragrance holds one
DeclaredNotes ==
  { Lower(OrEmpty(req.preferred_notes)[k].name) :
      k \in DOMAIN OrEmpty(req.preferred_notes) }
HoldsDeclared(fragrance) == LowerSet(fragrance.notes) \cap DeclaredNotes # {}

\* C20: on a catalog whose fragrances share avg_rating and num_ratings, a
\* preference request declaring only notes returns every fragrance holding a
\* declared note, with a strictly higher score, before every fragrance
\* holding none (a limit cuts the non-holders first); with one declared
\* note, the fragrances holding it have equal note match and equal score
C20_DeclaredNotesRankFirst ==
  (Succeeded /\ IsPreference /\ OrEmpty(req.preferred_accords) = <<>>)
    => LET result == outcome.result
       IN /\ \A i \in DOMAIN result, j \in DOMAIN result :
               (HoldsDeclared(result[i].fragrance)
                  /\ ~HoldsDeclared(result[j].fragrance))
                 => i < j /\ result[i].score > result[j].score
          /\ (\E j \in DOMAIN result : ~HoldsDeclared(result[j].fragrance))
               => \A k \in DOMAIN catalog :
                    HoldsDeclared(catalog[k])
                      => catalog[k].id \in ResultIds(result)
          /\ Cardinality(DeclaredNotes) = 1
               => \A i \in DOMAIN result, j \in DOMAIN result :
                    (HoldsDeclared(result[i].fragrance)
                       /\ HoldsDeclared(result[j].fragrance))
                      => /\ result[i].explanation.note_preference_match
                              = result[j].explanation.note_preference_match
                         /\ result[i].score = result[j].score

\* the request {vanilla: 9} on three fragrances, two holding vanilla with
\* different other notes and the third, stored first, holding none
C20_Witness ==
  /\ Succeeded /\ IsPreference
  /\ OrEmpty(req.preferred_accords) = <<>>
  /\ OrEmpty(req.preferred_notes) = <<[name |-> "vanilla", importance |-> 9]>>
  /\ Len(catalog) = 3 /\ Len(outcome.result) = 3
  /\ ~HoldsDeclared(catalog[1])
  /\ HoldsDeclared(catalog[2]) /\ HoldsDeclared(catalog[3])
  /\ catalog[2].notes # catalog[3].notes
  /\ outcome.result[3].fragrance.id = catalog[1].id
  /\ outcome.result[1].score = outcome.result[2].score
  /\ outcome.result[2].score > outcome.result[3].score

\* both values of a probe of the kind were computed
Probed(kind) == probe.pc = kind /\ probe.value[1] >= 0 /\ probe.value[2] >= 0

\* the accords every target of a diversity probe holds, and the share an
\* accord has of the weight of the collection profile
SharedAccords ==
  { a \in LowerSet(probe.target_fragrances[1].accords) :
      \A i \in DOMAIN probe.target_fragrances :
        a \in LowerSet(probe.target_fragrances[i].accords) }
ProfileAccords ==
  Sim_create_collection_profile(probe.target_fragrances).accord_preferences
AccordShare(a) == Div(CounterGet(ProfileAccords, a), CounterTotal(ProfileAccords))

\* C21: with two or more targets sharing an accord, a candidate whose only
\* accord is the shared one gets a strictly lower diversity bonus than a
\* candidate whose only accord is absent from the collection profile; a
\* candidate whose accords all have a share of 0.30 or more gets no bonus;
\* and no bonus exceeds 0.5
C21_SharedAccordLessDiverse ==
  Probed("diversity") =>
    /\ \A i \in 1..2, j \in 1..2 :
         (/\ Len(probe.target_fragrances) >= 2
          /\ Cardinality(LowerSet(probe.candidates[i].accords)) = 1
          /\ LowerSet(probe.candidates[i].accords) \subseteq SharedAccords
          /\ Cardinality(LowerSet(probe.candidates[j].accords)) = 1
          /\ LowerSet(probe.candidates[j].accords) \cap DOMAIN ProfileAccords
               = {})
           => probe.value[i] < probe.value[j]
    /\ \A i \in 1..2 :
         /\ probe.value[i] <= Pct(50)
         /\ (/\ Len(probe.target_fragrances) >= 2
             /\ \A a \in LowerSet(probe.candidates[i].accords) :
                  /\ a \in DOMAIN ProfileAccords
                  /\ AccordShare(a) >= Pct(30))
              => probe.value[i] = 0

\* two targets sharing "woody" at a share below 0.30, one candidate holding
\* only "woody" with a bonus above 0 and one holding only a new accord
C21_Witness ==
  /\ Probed("diversity")
  /\ Len(probe.target_fragrances) = 2
  /\ "woody" \in SharedAccords
  /\ probe.candidates[1].accords = <<"Woody">>
  /\ probe.candidates[2].accords = <<"oud">>
  /\ probe.value[1] > 0
  /\ probe.value[1] < probe.value[2]

\* C23: the quality score is 0 when num_ratings is 0 or avg_rating is 0 and
\* lies in [0, 1]; for one avg_rating above 2.5 it does not decrease as
\* num_ratings grows; one rating of 5.0 scores lower than 500 ratings
\* averaging 4.2
C23_QualityRewardsSampleSize ==
  Probed("quality") =>
    /\ \A i \in 1..2 :
         /\ (probe.num_ratings[i] = 0 \/ probe.avg_rating[i] = 0)
              => probe.value[i] = 0
         /\ probe.value[i] \in Unit
    /\ (/\ probe.avg_rating[1] = probe.avg_rating[2]
        /\ probe.avg_rating[1] > Pct(250)
        /\ probe.num_ratings[1] <= probe.num_ratings[2])
         => probe.value[1] <= probe.value[2]
    /\ (/\ probe.avg_rating[1] = Pct(500) /\ probe.num_ratings[1] = 1
        /\ probe.avg_rating[2] = Pct(420) /\ probe.num_ratings[2] = 500)
         => probe.value[1] < probe.value[2]

\* one rating of 5.0 and 500 ratings averaging 4.2 were both scored
C23_Witness ==
  /\ Probed("quality")
  /\ probe.avg_rating = <<Pct(500), Pct(420)>>
  /\ probe.num_ratings = <<1, 500>>
  /\ probe.value[1] > 0
  /\ probe.value[1] < probe.value[2]

\* a fragrance holding the note "vanilla" in one position only
HeldAt(position) ==
  Fragrance("f1",
            [top_notes |-> IF position = "top" THEN <<"vanilla">> ELSE <<>>,
             middle_notes |-> IF position = "middle" THEN <<"vanilla">>
                                                     ELSE <<>>,
             base_notes |-> IF position = "base" THEN <<"vanilla">> ELSE <<>>,
             accords |-> <<>>, avg_rating |-> 4 * Scale, num_ratings |-> 20])

\* what a match in one position adds to the position bonus of 1.0, in
\* single-target mode and in collection mode
SingleAdds(position) ==
  Sim_get_position_bonus(sim, "vanilla", HeldAt(position), HeldAt(position))
    - Scale
CollectionAdds(position) ==
  Sim_get_collection_position_bonus(sim, "vanilla", HeldAt(position)) - Scale

\* C22: on the similarity recommender, before and after every call,
\* MIDDLE_NOTE_WEIGHT > BASE_NOTE_WEIGHT > TOP_NOTE_WEIGHT, and in both modes
\* a match in the middle position adds more than one in the base position,
\* which adds more than one in the top position
C22_PositionOrdering ==
  /\ sim.MIDDLE_NOTE_WEIGHT > sim.BASE_NOTE_WEIGHT
  /\ sim.BASE_NOTE_WEIGHT > sim.TOP_NOTE_WEIGHT
  /\ SingleAdds("middle") > SingleAdds("base")
  /\ SingleAdds("base") > SingleAdds("top")
  /\ SingleAdds("top") > 0
  /\ CollectionAdds("middle") > CollectionAdds("base")
  /\ CollectionAdds("base") > CollectionAdds("top")
  /\ CollectionAdds("top") > 0

\* a collection call has returned a candidate whose notes match the targets'
C22_Witness ==
  /\ Succeeded /\ outcome.mode = "collection"
  /\ \E i \in DOMAIN outcome.result :
       outcome.result[i].explanation.note_similarity > 0
  /\ CollectionAdds("middle") = Pct(32)

\* C26: the rarity multiplier applied to a matched note preference is at
\* most 1.5, whatever the frequency (>= 1) of the note
C26_RarityMultiplierAtMost150 ==
  (probe.pc = "called" /\ probe.match_a >= 0 /\ probe.match_b >= 0)
    => \A n \in DOMAIN probe.note_frequencies :
         /\ probe.note_frequencies[n] >= 1
         /\ Nb_rarity_multiplier(probe.note_frequencies[n], Pct(50))
              <= Pct(150)

\* the declared notes a returned fragrance holds
HeldDeclared(fragrance) == LowerSet(fragrance.notes) \cap DeclaredNotes

\* C27: with two or more declared notes, a returned fragrance holding only a
\* strict subset of them has a strictly lower note-preference match than a
\* returned fragrance holding all of them
C27_MissingNotesPenalised ==
  (Succeeded /\ IsPreference /\ Cardinality(DeclaredNotes) >= 2)
    => \A i \in DOMAIN outcome.result, j \in DOMAIN outcome.result :
         (/\ HeldDeclared(outcome.result[i].fragrance) = DeclaredNotes
          /\ HeldDeclared(outcome.result[j].fragrance) # DeclaredNotes)
           => outcome.result[j].explanation.note_preference_match
                < outcome.result[i].explanation.note_preference_match

\* the fragrances of the targets of a similarity request that names known ids
TargetFragrances ==
  [i \in DOMAIN Sim_target_ids(req.target_fragrance_ids) |->
     DictValue(sim.fragrances, Sim_target_ids(req.target_fragrance_ids)[i])]

\* C28: on every catalog, before and after every call, scoring any fragrance
\* of the catalog on either recommender divides by no zero and takes no
\* logarithm or square root outside its domain, and neither does the
\* collection profile of a collection call
C28_NoArithmeticError ==
  /\ \A i \in DOMAIN catalog :
       ~Score_raises(nb, catalog[i]) /\ ~Score_raises(sim, catalog[i])
  /\ (Succeeded /\ IsSimilarity)
       => ~Sim_profile_raises(Sim_create_collection_profile(TargetFragrances))

\* a collection call returned results on a catalog where every fragrance has
\* 0 ratings and the targets have neither notes nor accords
C28_Witness ==
  /\ Succeeded /\ outcome.mode = "collection"
  /\ sim.max_ratings = 0 /\ nb.max_ratings = 0
  /\ outcome.result # <<>>
  /\ DOMAIN Sim_create_collection_profile(TargetFragrances).note_preferences
       = {}
  /\ outcome.result[1].explanation.popularity_score = 0

\* the place of a returned fragrance in the catalog as it was loaded
LoadPlace(id) == CHOOSE i \in DOMAIN catalog : catalog[i].id = id

\* two results of the returned list with the same final score
Tied(i, j) ==
  /\ i \in DOMAIN outcome.result /\ j \in DOMAIN outcome.result /\ i < j
  /\ outcome.result[i].score = outcome.result[j].score

\* C29: in every returned list, of both recommenders and in both similarity
\* modes, two candidates with equal final scores appear in the order in which
\* the catalog was loaded
C29_TiesInLoadOrder ==
  Succeeded =>
    \A i, j \in DOMAIN outcome.result :
      Tied(i, j) => LoadPlace(outcome.result[i].fragrance.id)
                      < LoadPlace(outcome.result[j].fragrance.id)

\* a preference call returned two candidates with the same positive score
C29_Witness ==
  /\ Succeeded /\ IsPreference
  /\ \E i, j \in DOMAIN outcome.result :
       Tied(i, j) /\ outcome.result[i].score > 0

\* the same in single-target and in collection mode
C29_WitnessSingle ==
  /\ Succeeded /\ outcome.mode = "single"
  /\ \E i, j \in DOMAIN outcome.result :
       Tied(i, j) /\ outcome.result[i].score > 0
C29_WitnessCollection ==
  /\ Succeeded /\ outcome.mode = "collection"
  /\ \E i, j \in DOMAIN outcome.result :
       Tied(i, j) /\ outcome.result[i].score > 0

\* the latest call was call `op` and returned `result`
Responded(op, result) == response = [op |-> op, result |-> result]

\* C24: once blacklist_token has returned True for the token, no verify_token
\* on it returns a payload, before, at or after its expiry
C24_LoggedOutTokenRejected ==
  (logged_out /\ response.op = "verify_token") => response.result = "None"

\* the calls reported allowed in the window of LoginWindow seconds opened by
\* the call at place i of the log
AllowedInWindow(i) ==
  { j \in DOMAIN allowed :
      allowed[j] >= allowed[i] /\ allowed[j] < allowed[i] + LoginWindow }

\* C25: in every window of 900 seconds at most 5 login attempts of the
\* client are reported allowed, whatever their timing
C25_AtMostFivePerWindow ==
  \A i \in DOMAIN allowed : Cardinality(AllowedInWindow(i)) <= LoginLimit

\* C30: an account rejected as temporarily locked (423) is later accepted
\* (200) by a login with the right password, by logins and time alone
C30_LockoutIsTemporary ==
  Responded("login_user", "423") ~> Responded("login_user", "200")

====
